---- MODULE Spec2Model ----
(***************************************************************************)
(* Document ingestion and retrieval pipeline of the trouble-ticket app:    *)
(* the embedding gateway and the file-backed vector store of               *)
(* server/services/vectorService.js, the stored-PDF directory and the      *)
(* rendered-page cache of server/services/documentService.js, and the      *)
(* document routes that drive them.                                        *)
(*                                                                         *)
(* Conventions.  A JavaScript null, undefined or '' that the code only     *)
(* tests for truthiness is the empty string "".  An optional value is a    *)
(* sequence of length 0 or 1.  An embedding vector of n floats is the      *)
(* record [dim |-> n, head |-> h]: its first Len(h) components are h, the  *)
(* others are 0.  A float the code computes is an exact fraction           *)
(* [num |-> a, den |-> b] with b > 0; the vectors of the model have        *)
(* integer norms, so that every cosine is such a fraction.                 *)
(***************************************************************************)
EXTENDS Integers, Sequences, FiniteSets, TLC

VARIABLES
  settings,      \* the settings sheet read by getSetting(key)
  env,           \* process.env, the API-key variables
  vectorStore,   \* vectorService.js `let vectorStore`: <<>> is null, <<s>> is loaded
  vectorFile,    \* data/vectors.json: <<>> is absent, <<s>> is its parsed content
  calls,         \* the asynchronous calls in flight, one slot per task
  ncalls,        \* calls started so far
  lastReturn,    \* the call that completed last, with what it returned
  docsDir,       \* data/documents: the stored <docId>.pdf files, with their pages
  renderCache,   \* documentService.js renderCache, a Map in insertion order
  clock,         \* Date.now(), in milliseconds since the server started
  deletedDocs,   \* the docIds whose DELETE /:docId request was answered with success
  documentsSheet, \* the rows of the 'documents' sheet
  uploadsDir      \* uploads/: the temp files multer wrote that no one has deleted

vars == <<settings, env, vectorStore, vectorFile, calls, ncalls, lastReturn,
          docsDir, renderCache, clock, deletedDocs, documentsSheet,
          uploadsDir>>

gatewayVars == <<settings, env>>
storeVars == <<vectorStore, vectorFile>>
docVars == <<docsDir, renderCache, clock, deletedDocs, documentsSheet,
          uploadsDir>>

----------------------------------------------------------------------------
(* Bounds of the model *)

MaxTasks == 2
MaxChunks == 2
MaxCalls == 3

Tasks == 1..MaxTasks

----------------------------------------------------------------------------
(* Generic helpers *)

Min(a, b) == IF a <= b THEN a ELSE b
Max(a, b) == IF a >= b THEN a ELSE b

Range(s) == {s[i] : i \in DOMAIN s}

\* Array.prototype.slice(start, end) with JavaScript's clamping of a negative
\* or too large end (start is 0 wherever the code slices).
Slice(s, end) ==
  LET e == IF end < 0 THEN Max(Len(s) + end, 0) ELSE Min(end, Len(s))
  IN  SubSeq(s, 1, e)

\* Exact fractions
Rat(n, d) == [num |-> n, den |-> d]
RatLess(a, b) == a.num * b.den < b.num * a.den
RatEq(a, b) == a.num * b.den = b.num * a.den
RatSub(a, b) == Rat(a.num * b.den - b.num * a.den, a.den * b.den)
RatZero == Rat(0, 1)
RatOne == Rat(1, 1)

\* Math.sqrt on the squared norms of the model's vectors (perfect squares)
Sqrt(n) == CHOOSE r \in 0..n : r * r = n

----------------------------------------------------------------------------
(* middleware/encryption.js *)

\* encrypt(text): '' for an empty text, else "<iv hex>:<ciphertext hex>".
\* The model keeps one iv and writes the ciphertext of p as "c(" p ")".
encrypt(text) == IF text = "" THEN "" ELSE "9f2c:c(" \o text \o ")"

\* The keys an administrator can have stored through the settings page.
PlainKeys == {"sk-embed", "sk-chat"}

\* decrypt(text): '' for an empty text; the plaintext when text is what
\* encrypt produced; '' when createDecipheriv/update/final throw (the catch).
decrypt(text) ==
  IF text = "" THEN ""
  ELSE IF \E p \in PlainKeys : encrypt(p) = text
       THEN CHOOSE p \in PlainKeys : encrypt(p) = text
       ELSE ""

----------------------------------------------------------------------------
(* services/vectorService.js: the embedding gateway *)

EMBEDDING_PROVIDERS == {"openai", "openrouter", "cohere", "jina", "ollama"}

ProviderName(p) ==
  CASE p = "openai" -> "OpenAI"
    [] p = "openrouter" -> "OpenRouter"
    [] p = "cohere" -> "Cohere"
    [] p = "jina" -> "Jina AI"
    [] p = "ollama" -> "Ollama (Local)"
    [] OTHER -> "undefined"

DefaultModel(p) ==
  CASE p = "openai" -> "text-embedding-3-small"
    [] p = "openrouter" -> "openai/text-embedding-3-small"
    [] p = "cohere" -> "embed-english-v3.0"
    [] p = "jina" -> "jina-embeddings-v2-base-en"
    [] p = "ollama" -> "nomic-embed-text"
    [] OTHER -> "undefined"

\* EMBEDDING_PROVIDERS[p].dimensions[m]; 0 when the provider has no such model
Dimensions(p, m) ==
  CASE p = "openai" /\ m = "text-embedding-3-small" -> 1536
    [] p = "openai" /\ m = "text-embedding-3-large" -> 3072
    [] p = "openai" /\ m = "text-embedding-ada-002" -> 1536
    [] p = "openrouter" /\ m = "openai/text-embedding-3-small" -> 1536
    [] p = "openrouter" /\ m = "openai/text-embedding-3-large" -> 3072
    [] p = "openrouter" /\ m = "openai/text-embedding-ada-002" -> 1536
    [] p = "cohere" /\ m = "embed-english-v3.0" -> 1024
    [] p = "cohere" /\ m = "embed-multilingual-v3.0" -> 1024
    [] p = "cohere" /\ m = "embed-english-light-v3.0" -> 384
    [] p = "jina" /\ m = "jina-embeddings-v2-base-en" -> 768
    [] p = "jina" /\ m = "jina-embeddings-v2-small-en" -> 512
    [] p = "ollama" /\ m = "nomic-embed-text" -> 768
    [] p = "ollama" /\ m = "all-minilm" -> 384
    [] p = "ollama" /\ m = "mxbai-embed-large" -> 1024
    [] OTHER -> 0

\* The environment variable that the switch of getEmbeddingConfig reads
EnvVarOf(p) ==
  CASE p = "openai" -> "OPENAI_API_KEY"
    [] p = "openrouter" -> "OPENROUTER_API_KEY"
    [] p = "cohere" -> "COHERE_API_KEY"
    [] p = "jina" -> "JINA_API_KEY"
    [] OTHER -> ""

EnvVars == {"OPENAI_API_KEY", "OPENROUTER_API_KEY", "COHERE_API_KEY", "JINA_API_KEY"}

\* The stored key of getEmbeddingConfig, lines 104-124:
\*   try { apiKey = decrypt(storedKey) || storedKey } catch { apiKey = storedKey }
StoredApiKey(storedKey) ==
  IF storedKey = "" THEN ""
  ELSE IF decrypt(storedKey) # "" THEN decrypt(storedKey) ELSE storedKey

\* The fallback switch of getEmbeddingConfig, lines 127-145
EnvApiKey(provider, e) ==
  CASE provider = "ollama" -> "not-required"
    [] provider \in {"openai", "openrouter", "cohere", "jina"} -> e[EnvVarOf(provider)]
    [] OTHER -> ""

getEmbeddingConfig(s, e) ==
  LET provider == IF s.embedding_provider # "" THEN s.embedding_provider ELSE "openai"
      model == IF s.embedding_model # "" THEN s.embedding_model
               ELSE DefaultModel(provider)
      useChatKey == s.embedding_use_chat_key = "true"
      ollamaUrl == IF s.ollama_url # "" THEN s.ollama_url ELSE "http://localhost:11434"
      stored == StoredApiKey(IF useChatKey THEN s.api_key ELSE s.embedding_api_key)
      apiKey == IF stored # "" THEN stored ELSE EnvApiKey(provider, e)
  IN  [provider |-> provider, model |-> model, apiKey |-> apiKey,
       useChatKey |-> useChatKey, ollamaUrl |-> ollamaUrl]

\* The embedding a backend returns for a text: a vector of the model's
\* dimensionality.  Its leading components are fixed per text.
EmbedHead(text) ==
  CASE text = "alpha" -> <<5, 0>>
    [] text = "beta" -> <<4, 3>>
    [] text = "gamma" -> <<3, 4>>
    [] text = "delta" -> <<0, 5>>
    [] text = "epsilon" -> <<-3, 4>>
    [] OTHER -> <<-5, 0>>

\* The keys the providers accept: the administrator's keys and the keys of
\* the environment; a provider answers 401 to anything else.
EnvKeyOf(v) == "env-" \o v
AcceptedKeys == PlainKeys \cup {EnvKeyOf(v) : v \in EnvVars}

\* The endpoint each generate<Provider>Embeddings function posts to
Endpoint(backend, ollamaUrl) ==
  CASE backend = "generateOpenAIEmbeddings" -> "api.openai.com"
    [] backend = "generateOpenRouterEmbeddings" -> "openrouter.ai/api/v1"
    [] backend = "generateCohereEmbeddings" -> "api.cohere.ai/v1/embed"
    [] backend = "generateJinaEmbeddings" -> "api.jina.ai/v1/embeddings"
    [] OTHER -> ollamaUrl

\* One call of a backend function: the request it sends and what comes back.
\* up says whether the provider is reachable and within quota.
CallBackend(backend, provider, texts, apiKey, ollamaUrl, model, up) ==
  LET m == IF model \in {"", "undefined"} THEN DefaultModel(provider) ELSE model
      dim == Dimensions(provider, m)
      accepted == backend = "generateOllamaEmbeddings" \/ apiKey \in AcceptedKeys
      ok == up /\ accepted /\ dim > 0 /\ Len(texts) > 0
  IN  [outcome |-> IF ok THEN "ok" ELSE "error",
       error |-> IF ok THEN "" ELSE "ProviderError",
       names |-> "",
       invoked |-> <<[backend |-> backend,
                      endpoint |-> Endpoint(backend, ollamaUrl),
                      credential |-> IF backend = "generateOllamaEmbeddings"
                                     THEN "" ELSE apiKey,
                      model |-> m]>>,
       embeddings |-> IF ok
                      THEN [i \in 1..Len(texts) |->
                              [dim |-> dim, head |-> EmbedHead(texts[i])]]
                      ELSE <<>>]

\* The switch of generateEmbeddings, lines 271-284: "" is the default case
BackendOf(provider) ==
  CASE provider = "openai" -> "generateOpenAIEmbeddings"
    [] provider = "openrouter" -> "generateOpenRouterEmbeddings"
    [] provider = "cohere" -> "generateCohereEmbeddings"
    [] provider = "jina" -> "generateJinaEmbeddings"
    [] provider = "ollama" -> "generateOllamaEmbeddings"
    [] OTHER -> ""

GatewayError(kind, names) ==
  [outcome |-> "error", error |-> kind, names |-> names,
   invoked |-> <<>>, embeddings |-> <<>>]

\* generateEmbeddings(texts) with the settings and environment it reads
generateEmbeddings(texts, s, e, up) ==
  LET config == getEmbeddingConfig(s, e)
  IN  IF config.apiKey = "" /\ config.provider # "ollama"
      THEN GatewayError("No API key configured",
                        IF ProviderName(config.provider) # "undefined"
                        THEN ProviderName(config.provider) ELSE config.provider)
      ELSE IF BackendOf(config.provider) # ""
           THEN CallBackend(BackendOf(config.provider), config.provider, texts,
                            config.apiKey, config.ollamaUrl, config.model, up)
           ELSE GatewayError("Unknown embedding provider", config.provider)

----------------------------------------------------------------------------
(* services/vectorService.js: the vector store *)

EmptyStore == [chunks |-> <<>>, provider |-> "", model |-> ""]

\* loadVectorStore(): the cached store, else the parsed file, else an empty one
loadVectorStore(vs, file) ==
  IF vs # <<>> THEN vs
  ELSE IF file # <<>> THEN file
  ELSE <<EmptyStore>>

\* saveVectorStore(): writeFileSync of the whole store; it throws when the
\* write fails (diskOk = FALSE) and the file keeps its content
saveVectorStore(vs, file, diskOk) == IF diskOk THEN vs ELSE file

\* cosineSimilarity(a, b)
Component(v, i) == IF i <= Len(v.head) THEN v.head[i] ELSE 0

RECURSIVE SumTo(_, _, _, _)
SumTo(a, b, i, n) ==
  IF i > n THEN 0 ELSE Component(a, i) * Component(b, i) + SumTo(a, b, i + 1, n)

\* A cosineSimilarity without the length check: the components the shorter
\* vector lacks count as 0
CosineUnchecked(a, b) ==
  LET n == Max(Len(a.head), Len(b.head))
  IN  Rat(SumTo(a, b, 1, n), Sqrt(SumTo(a, a, 1, n)) * Sqrt(SumTo(b, b, 1, n)))

cosineSimilarity(a, b) ==
  IF a.dim # b.dim THEN RatZero
  ELSE LET n == Max(Len(a.head), Len(b.head))
           dotProduct == SumTo(a, b, 1, n)
           normA == SumTo(a, a, 1, n)
           normB == SumTo(b, b, 1, n)
       IN  Rat(dotProduct, Sqrt(normA) * Sqrt(normB))

\* id = `${chunk.docId}_${idSuffix}`
ChunkId(chunk, chunkType) ==
  chunk.docId \o "_" \o
  (IF chunkType = "image" THEN "img_" ELSE "chunk_") \o ToString(chunk.index)

\* chunkData of addChunks, lines 346-369
ChunkData(chunk, chunkType, embedding) ==
  LET base == [type |-> chunkType,
               docId |-> chunk.docId,
               chunkIndex |-> chunk.index,
               tokenCount |-> chunk.tokenCount,
               source |-> chunk.metadata.source,
               numPages |-> chunk.metadata.numPages,
               application |-> chunk.application,
               pageNumber |-> chunk.pageNumber,
               startPage |-> chunk.startPage,
               endPage |-> chunk.endPage]
      metadata == IF chunkType = "image"
                  THEN [f \in DOMAIN base \cup {"imagePath", "imageFilename"} |->
                          IF f = "imagePath" THEN chunk.imagePath
                          ELSE IF f = "imageFilename" THEN chunk.imageFilename
                          ELSE base[f]]
                  ELSE base
  IN  [id |-> ChunkId(chunk, chunkType), content |-> chunk.content,
       embedding |-> embedding, metadata |-> metadata]

\* A loop pass that keeps only the records of the document being added
PushChunkAlone(stored, chunkData) ==
  Append(SelectSeq(stored, LAMBDA c : c.metadata.docId = chunkData.metadata.docId
                                        /\ c.id # chunkData.id),
         chunkData)

\* A loop pass that pushes without dropping the record that has the id
PushWithoutReplace(stored, chunkData) == Append(stored, chunkData)

\* One pass of the loop of addChunks, lines 338-372: drop the record that has
\* the id, then push the new one
PushChunk(stored, chunkData) ==
  Append(SelectSeq(stored, LAMBDA c : c.id # chunkData.id), chunkData)

\* A loop that stops after the first chunk it pushes
AddLoopFirstOnly(stored, chunks, chunkType, embeddings, i) ==
  IF i > Len(chunks) THEN stored
  ELSE PushChunk(stored, ChunkData(chunks[i], chunkType, embeddings[i]))

RECURSIVE AddLoop(_, _, _, _, _)
AddLoop(stored, chunks, chunkType, embeddings, i) ==
  IF i > Len(chunks) THEN stored
  ELSE AddLoop(PushChunk(stored, ChunkData(chunks[i], chunkType, embeddings[i])),
               chunks, chunkType, embeddings, i + 1)

\* A deleteDocument that cuts the list off at the first record it removes
DeleteFromFirstMatch(stored, docId) ==
  IF \E i \in DOMAIN stored : stored[i].metadata.docId = docId
  THEN LET i == CHOOSE i \in DOMAIN stored :
                  /\ stored[i].metadata.docId = docId
                  /\ \A j \in 1..(i - 1) : stored[j].metadata.docId # docId
       IN  SubSeq(stored, 1, i - 1)
  ELSE stored

\* A deleteDocument that stops at the first record it removes
DeleteFirstOnly(stored, docId) ==
  IF \E i \in DOMAIN stored : stored[i].metadata.docId = docId
  THEN LET i == CHOOSE i \in DOMAIN stored :
                  /\ stored[i].metadata.docId = docId
                  /\ \A j \in 1..(i - 1) : stored[j].metadata.docId # docId
       IN  SubSeq(stored, 1, i - 1) \o SubSeq(stored, i + 1, Len(stored))
  ELSE stored

\* addChunks, lines 338-376: the store after the loop, with the provider and
\* model of the configuration read at the start of the call
AddChunksStore(store, chunks, chunkType, config, embeddings) ==
  [chunks |-> AddLoop(store.chunks, chunks, chunkType, embeddings, 1),
   provider |-> config.provider,
   model |-> config.model]

\* The filter of deleteDocument, lines 471-473
DeleteFilter(stored, docId) == SelectSeq(stored, LAMBDA c : c.metadata.docId # docId)

\* A sort whose comparator is a.similarity - b.similarity
RECURSIVE InsertAscending(_, _)
InsertAscending(sorted, r) ==
  IF sorted = <<>> THEN <<r>>
  ELSE IF RatLess(r.similarity, Head(sorted).similarity)
       THEN <<r>> \o sorted
       ELSE <<Head(sorted)>> \o InsertAscending(Tail(sorted), r)

\* results.sort((a, b) => b.similarity - a.similarity): a stable sort
RECURSIVE InsertSorted(_, _)
InsertSorted(sorted, r) ==
  IF sorted = <<>> THEN <<r>>
  ELSE IF RatLess(Head(sorted).similarity, r.similarity)
       THEN <<r>> \o sorted
       ELSE <<Head(sorted)>> \o InsertSorted(Tail(sorted), r)

RECURSIVE SortBySimilarity(_, _)
SortBySimilarity(results, n) ==
  IF n = 0 THEN <<>>
  ELSE InsertSorted(SortBySimilarity(results, n - 1), results[n])

DefaultLimit == 5

\* const limit = options.limit || 5
SearchLimit(options) ==
  IF options.limit # <<>> /\ options.limit[1] # 0 THEN options.limit[1] ELSE DefaultLimit

\* Candidate filters that ignore the docId when an application is given
CandidatesByApplicationOnly(stored, options) ==
  IF options.application # ""
  THEN SelectSeq(stored, LAMBDA c : c.metadata.application = options.application)
  ELSE IF options.docId # ""
       THEN SelectSeq(stored, LAMBDA c : c.metadata.docId = options.docId)
       ELSE stored

\* The candidate filters of search, lines 428-438
Candidates(stored, options) ==
  LET byApp == IF options.application # ""
               THEN SelectSeq(stored, LAMBDA c : c.metadata.application = options.application)
               ELSE stored
  IN  IF options.docId # ""
      THEN SelectSeq(byApp, LAMBDA c : c.metadata.docId = options.docId)
      ELSE byApp

\* search, lines 440-461, from the query embedding on
SearchResults(stored, queryEmbedding, options) ==
  LET candidateChunks == Candidates(stored, options)
      results == [i \in 1..Len(candidateChunks) |->
                    [id |-> candidateChunks[i].id,
                     content |-> candidateChunks[i].content,
                     metadata |-> candidateChunks[i].metadata,
                     similarity |-> cosineSimilarity(queryEmbedding,
                                                     candidateChunks[i].embedding)]]
      sorted == SortBySimilarity(results, Len(results))
      top == Slice(sorted, SearchLimit(options))
  IN  IF candidateChunks = <<>> THEN <<>>
      ELSE [i \in 1..Len(top) |->
              [id |-> top[i].id, content |-> top[i].content,
               metadata |-> top[i].metadata,
               distance |-> RatSub(RatOne, top[i].similarity),
               similarity |-> top[i].similarity]]

----------------------------------------------------------------------------
(* Inputs: what the callers of the vector store hand to it *)

DocIds == {"doc_a1", "doc_b2"}
Applications == {"hr", "crm"}
Versions == {1, 2}

\* documentService.js estimateTokens(text)
estimateTokens(text) == (Len(text) + 3) \div 4

\* The text of page i + 1 of a document, in its first and in a revised version
\* (the revision's pages are the texts three places on)
Texts == <<"alpha", "beta", "gamma", "delta", "epsilon", "zeta">>

PageText(ver, i) == Texts[(((ver - 1) * 3 + i) % Len(Texts)) + 1]

\* A chunk as the upload route hands it to addChunks: chunkByPages' fields,
\* processDocument's envelope and the route's application stamp
TextChunk(d, i, n, ver, app) ==
  [content |-> PageText(ver, i), index |-> i,
   tokenCount |-> estimateTokens(PageText(ver, i)),
   pageNumber |-> i + 1, startPage |-> i + 1, endPage |-> i + 1,
   docId |-> d,
   metadata |-> [source |-> d \o ".pdf", numPages |-> n, fileType |-> "pdf"],
   application |-> app]

TextChunks(d, n, ver, app) == [k \in 1..n |-> TextChunk(d, k - 1, n, ver, app)]

\* An image as the callers of addImageChunks describe it
Image(d, i, ver, app) ==
  [docId |-> d, imagePath |-> "data/images/" \o d \o "_p" \o ToString(i + 1) \o "_i0.png",
   imageFilename |-> d \o "_p" \o ToString(i + 1) \o "_i0.png",
   description |-> PageText(ver, i), pageNumber |-> i + 1, index |-> i,
   application |-> app]

Images(d, n, ver, app) == [k \in 1..n |-> Image(d, k - 1, ver, app)]

\* The chunk addImageChunks makes of an image, lines 395-407; the fields it
\* leaves out read as 0 in addChunks (`chunk.startPage || 0`)
ImageChunk(img) ==
  [content |-> img.description, docId |-> img.docId, index |-> img.index,
   tokenCount |-> (Len(img.description) + 3) \div 4,
   imagePath |-> img.imagePath, imageFilename |-> img.imageFilename,
   pageNumber |-> img.pageNumber, startPage |-> 0, endPage |-> 0,
   application |-> img.application,
   metadata |-> [source |-> img.imageFilename, numPages |-> 0]]

\* The settings an administrator switches between while the store is in use
BaseSettings ==
  [embedding_provider |-> "", embedding_model |-> "", embedding_use_chat_key |-> "",
   api_key |-> "", embedding_api_key |-> "", ollama_url |-> ""]

OpenAISettings == [BaseSettings EXCEPT !.embedding_provider = "openai",
                                       !.embedding_api_key = encrypt("sk-embed")]
JinaSettings == [BaseSettings EXCEPT !.embedding_provider = "jina",
                                     !.embedding_api_key = encrypt("sk-embed")]
StoreSettings == {OpenAISettings, JinaSettings}

NoEnv == [v \in EnvVars |-> ""]

----------------------------------------------------------------------------
(* The calls in flight and the record of the call that returned last *)

Idle == [pc |-> "idle"]

NoReturn ==
  [op |-> "none", task |-> 0, args |-> <<>>, outcome |-> "", error |-> "",
   names |-> "", value |-> <<>>, pre |-> <<>>, post |-> <<>>, again |-> FALSE]

\* The record of a call that returns value (outcome "ok") or throws error;
\* pre and post are the stored chunks before and after it, and again says
\* that the call that returned before it was the same call and returned ok
Returned(op, t, args, outcome, error, names, value, pre, post) ==
  [op |-> op, task |-> t, args |-> args, outcome |-> outcome, error |-> error,
   names |-> names, value |-> value, pre |-> pre, post |-> post,
   again |-> lastReturn.op = op /\ lastReturn.outcome = "ok" /\ lastReturn.args = args]

Loaded == loadVectorStore(vectorStore, vectorFile)[1]

----------------------------------------------------------------------------
(* Actions: the exported operations of vectorService.js *)

\* addChunks up to its second await: loadVectorStore, getEmbeddingConfig,
\* and the early return for an empty list
AddChunksCall(t, chunks, chunkType) ==
  /\ calls[t].pc = "idle"
  /\ ncalls < MaxCalls
  /\ ncalls' = ncalls + 1
  /\ vectorStore' = <<Loaded>>
  /\ IF Len(chunks) = 0
     THEN /\ lastReturn' = Returned("addChunks", t,
                                    [chunks |-> chunks, chunkType |-> chunkType],
                                    "ok", "", "", [success |-> TRUE, count |-> 0],
                                    Loaded.chunks, Loaded.chunks)
          /\ UNCHANGED calls
     ELSE /\ calls' = [calls EXCEPT ![t] =
                         [pc |-> "addChunks", chunks |-> chunks, chunkType |-> chunkType,
                          config |-> getEmbeddingConfig(settings, env)]]
          /\ UNCHANGED lastReturn
  /\ UNCHANGED <<settings, env, vectorFile, docVars>>

\* addImageChunks: an empty list returns at once, else addChunks(.., 'image')
AddImageChunksCall(t, images) ==
  IF Len(images) = 0
  THEN /\ calls[t].pc = "idle"
       /\ ncalls < MaxCalls
       /\ ncalls' = ncalls + 1
       /\ lastReturn' = Returned("addImageChunks", t, [images |-> images], "ok", "", "",
                                 [success |-> TRUE, count |-> 0],
                                 <<>>, <<>>)
       /\ UNCHANGED <<settings, env, storeVars, calls, docVars>>
  ELSE AddChunksCall(t, [k \in 1..Len(images) |-> ImageChunk(images[k])], "image")

\* addChunks from the answer of generateEmbeddings on: the loop, the
\* provider/model record and saveVectorStore
AddChunksEmbedded(t, up, diskOk) ==
  /\ calls[t].pc = "addChunks"
  /\ LET c == calls[t]
         args == [chunks |-> c.chunks, chunkType |-> c.chunkType]
         documents == [k \in 1..Len(c.chunks) |-> c.chunks[k].content]
         gw == generateEmbeddings(documents, settings, env, up)
         pre == vectorStore[1]
         post == AddChunksStore(pre, c.chunks, c.chunkType, c.config, gw.embeddings)
     IN  IF gw.outcome = "error"
         THEN /\ lastReturn' = Returned("addChunks", t, args, "error", gw.error, gw.names,
                                        <<>>, pre.chunks, pre.chunks)
              /\ UNCHANGED storeVars
         ELSE /\ vectorStore' = <<post>>
              /\ vectorFile' = saveVectorStore(<<post>>, vectorFile, diskOk)
              /\ lastReturn' =
                   IF diskOk
                   THEN Returned("addChunks", t, args, "ok", "", "",
                                 [success |-> TRUE, count |-> Len(c.chunks)],
                                 pre.chunks, post.chunks)
                   ELSE Returned("addChunks", t, args, "error", "writeFileSync", "",
                                 <<>>, pre.chunks, post.chunks)
  /\ calls' = [calls EXCEPT ![t] = Idle]
  /\ UNCHANGED <<settings, env, ncalls, docVars>>

\* deleteDocument(docId): no await inside, one step
DeleteDocumentCall(t, docId, diskOk) ==
  /\ calls[t].pc = "idle"
  /\ ncalls < MaxCalls
  /\ ncalls' = ncalls + 1
  /\ LET pre == Loaded
         post == [pre EXCEPT !.chunks = DeleteFilter(pre.chunks, docId)]
     IN  /\ vectorStore' = <<post>>
         /\ vectorFile' = saveVectorStore(<<post>>, vectorFile, diskOk)
         /\ lastReturn' =
              IF diskOk
              THEN Returned("deleteDocument", t, [docId |-> docId], "ok", "", "",
                            [success |-> TRUE], pre.chunks, post.chunks)
              ELSE Returned("deleteDocument", t, [docId |-> docId], "error",
                            "writeFileSync", "", <<>>, pre.chunks, post.chunks)
  /\ UNCHANGED <<settings, env, calls, docVars>>

\* clearAll(): replaces the store without loading it
ClearAllCall(t, diskOk) ==
  /\ calls[t].pc = "idle"
  /\ ncalls < MaxCalls
  /\ ncalls' = ncalls + 1
  /\ LET pre == IF vectorStore = <<>> THEN <<>> ELSE vectorStore[1].chunks
     IN  /\ vectorStore' = <<EmptyStore>>
         /\ vectorFile' = saveVectorStore(<<EmptyStore>>, vectorFile, diskOk)
         /\ lastReturn' =
              IF diskOk
              THEN Returned("clearAll", t, <<>>, "ok", "", "", [success |-> TRUE],
                            pre, <<>>)
              ELSE Returned("clearAll", t, <<>>, "error", "writeFileSync", "", <<>>,
                            pre, <<>>)
  /\ UNCHANGED <<settings, env, calls, docVars>>

\* search up to its await: loadVectorStore and the early return for an
\* empty store
SearchCall(t, query, options) ==
  /\ calls[t].pc = "idle"
  /\ ncalls < MaxCalls
  /\ ncalls' = ncalls + 1
  /\ vectorStore' = <<Loaded>>
  /\ IF Len(Loaded.chunks) = 0
     THEN /\ lastReturn' = Returned("search", t, [query |-> query, options |-> options],
                                    "ok", "", "", <<>>, <<>>, <<>>)
          /\ UNCHANGED calls
     ELSE /\ calls' = [calls EXCEPT ![t] =
                         [pc |-> "search", query |-> query, options |-> options]]
          /\ UNCHANGED lastReturn
  /\ UNCHANGED <<settings, env, vectorFile, docVars>>

\* search from the answer of generateEmbeddings on
SearchEmbedded(t, up) ==
  /\ calls[t].pc = "search"
  /\ LET c == calls[t]
         args == [query |-> c.query, options |-> c.options]
         gw == generateEmbeddings(<<c.query>>, settings, env, up)
         stored == vectorStore[1].chunks
     IN  lastReturn' =
           IF gw.outcome = "error"
           THEN Returned("search", t, args, "error", gw.error, gw.names, <<>>,
                         stored, stored)
           ELSE Returned("search", t, args, "ok", "", "",
                         SearchResults(stored, gw.embeddings[1], c.options),
                         stored, stored)
  /\ calls' = [calls EXCEPT ![t] = Idle]
  /\ UNCHANGED <<settings, env, storeVars, ncalls, docVars>>

\* The administrator saves other embedding settings
UpdateSettings(s) ==
  /\ s # settings
  /\ settings' = s
  /\ UNCHANGED <<env, storeVars, calls, ncalls, lastReturn, docVars>>

----------------------------------------------------------------------------
(* Spec: the vector store under concurrent callers *)

Init ==
  /\ settings = OpenAISettings
  /\ env = NoEnv
  /\ vectorStore = <<>>
  /\ vectorFile = <<>>
  /\ calls = [t \in Tasks |-> Idle]
  /\ ncalls = 0
  /\ lastReturn = NoReturn
  /\ docsDir = {}
  /\ renderCache = <<>>
  /\ clock = 0
  /\ deletedDocs = {}
  /\ uploadsDir = {}
  /\ documentsSheet = {}

\* The ingestions of the model: a document of MaxChunks pages, its revision
\* with one page less, an empty document and a second document
Ingestions ==
  {TextChunks("doc_a1", MaxChunks, 1, "hr"), TextChunks("doc_a1", MaxChunks - 1, 2, "hr"),
   TextChunks("doc_a1", MaxChunks, 2, "hr"), TextChunks("doc_a1", 0, 1, "hr"),
   TextChunks("doc_b2", 1, 1, "crm")}

ImageLists == {Images("doc_a1", 1, 1, "hr"), Images("doc_a1", 0, 1, "hr")}

Next ==
  \/ \E t \in Tasks, chunks \in Ingestions : AddChunksCall(t, chunks, "text")
  \/ \E t \in Tasks, images \in ImageLists : AddImageChunksCall(t, images)
  \/ \E t \in Tasks, up \in BOOLEAN, diskOk \in BOOLEAN : AddChunksEmbedded(t, up, diskOk)
  \/ \E t \in Tasks, d \in DocIds, diskOk \in BOOLEAN : DeleteDocumentCall(t, d, diskOk)
  \/ \E t \in Tasks, diskOk \in BOOLEAN : ClearAllCall(t, diskOk)
  \/ \E s \in StoreSettings : UpdateSettings(s)

Spec == Init /\ [][Next]_vars

----------------------------------------------------------------------------
(* Claims on the vector store, under Spec *)

StoredChunks == IF vectorStore = <<>> THEN <<>> ELSE vectorStore[1].chunks
FileChunks == IF vectorFile = <<>> THEN <<>> ELSE vectorFile[1].chunks

RecordsOf(stored, docId) == {i \in DOMAIN stored : stored[i].metadata.docId = docId}

\* Query embeddings of the two dimensionalities that the store of Spec holds
QueryEmbeddings ==
  {[dim |-> n, head |-> EmbedHead(t)] : n \in {768, 1536}, t \in {"alpha", "delta"}}

Unfiltered == {[limit |-> l, application |-> "", docId |-> ""] : l \in {<<>>, <<1>>}}

\* C1: after deleteDocument(docId) has returned, the store holds no record of
\* docId and an unfiltered search, whatever the query, returns none; a second
\* deleteDocument(docId) right after the first fails at most on the write of
\* the file and leaves the stored chunks as they were.
C1_DeleteDocumentComplete ==
  lastReturn.op = "deleteDocument" =>
    /\ lastReturn.outcome = "ok" =>
         /\ RecordsOf(StoredChunks, lastReturn.args.docId) = {}
         /\ StoredChunks = lastReturn.post
         /\ \A q \in QueryEmbeddings, o \in Unfiltered :
              \A r \in Range(SearchResults(StoredChunks, q, o)) :
                r.metadata.docId # lastReturn.args.docId
    /\ lastReturn.again =>
         /\ lastReturn.error \in {"", "writeFileSync"}
         /\ lastReturn.post = lastReturn.pre
         /\ StoredChunks = lastReturn.pre

\* C1 witness: a second deleteDocument(docId) has returned ok while the store
\* holds records of another document.
C1_Witness ==
  /\ lastReturn.op = "deleteDocument"
  /\ lastReturn.outcome = "ok"
  /\ lastReturn.again
  /\ StoredChunks # <<>>

UniqueIds(stored) == \A i, j \in DOMAIN stored : stored[i].id = stored[j].id => i = j

\* C3: no two records of the store (in memory or in the file) share an id, and
\* after addChunks has returned ok the store holds, for each chunk of the call,
\* exactly one record with the chunk's id, and it has the chunk's content.
C3_OneRecordPerId ==
  /\ UniqueIds(StoredChunks)
  /\ UniqueIds(FileChunks)
  /\ (lastReturn.op = "addChunks" /\ lastReturn.outcome = "ok") =>
       \A k \in DOMAIN lastReturn.args.chunks :
         LET chunk == lastReturn.args.chunks[k]
             same == {i \in DOMAIN StoredChunks :
                        StoredChunks[i].id = ChunkId(chunk, lastReturn.args.chunkType)}
         IN  /\ Cardinality(same) = 1
             /\ \A i \in same : StoredChunks[i].content = chunk.content

\* C3 witness: addChunks has returned ok for chunks whose ids were all in the
\* store before the call, each with another content.
C3_Witness ==
  /\ lastReturn.op = "addChunks"
  /\ lastReturn.outcome = "ok"
  /\ Len(lastReturn.args.chunks) = MaxChunks
  /\ \A k \in DOMAIN lastReturn.args.chunks :
       \E i \in DOMAIN lastReturn.pre :
         /\ lastReturn.pre[i].id =
              ChunkId(lastReturn.args.chunks[k], lastReturn.args.chunkType)
         /\ lastReturn.pre[i].content # lastReturn.args.chunks[k].content

\* C4 (as claimed): after addChunks has returned ok for chunks of a docId, the
\* records the store holds for that docId and chunk type are exactly those of
\* the call.
C4_ReingestionDropsOldChunks ==
  (lastReturn.op = "addChunks" /\ lastReturn.outcome = "ok"
     /\ lastReturn.args.chunks # <<>>) =>
    LET type == lastReturn.args.chunkType
        docId == lastReturn.args.chunks[1].docId
    IN  {StoredChunks[i].id : i \in {j \in RecordsOf(StoredChunks, docId) :
                                        StoredChunks[j].metadata.type = type}}
        = {ChunkId(lastReturn.args.chunks[k], type) : k \in DOMAIN lastReturn.args.chunks}

----------------------------------------------------------------------------
(* SpecSearch: search over the stores a restarted server finds in its file *)

SeedPages == 3
MaxLimit == 2

\* The store file after addChunks(chunks, 'text') under the settings s
Ingested(store, chunks, s) ==
  AddChunksStore(store, chunks, "text", getEmbeddingConfig(s, NoEnv),
                 generateEmbeddings([k \in 1..Len(chunks) |-> chunks[k].content],
                                    s, NoEnv, TRUE).embeddings)

SeedFiles ==
  {<<>>,
   <<Ingested(EmptyStore, TextChunks("doc_a1", 1, 1, "hr"), JinaSettings)>>,
   <<Ingested(Ingested(EmptyStore, TextChunks("doc_a1", SeedPages, 1, "hr"), OpenAISettings),
              TextChunks("doc_b2", SeedPages, 2, "crm"), OpenAISettings)>>,
   <<Ingested(Ingested(EmptyStore, TextChunks("doc_a1", SeedPages, 1, "hr"), JinaSettings),
              TextChunks("doc_b2", SeedPages, 2, "hr"), OpenAISettings)>>}

\* The options of the model: every limit without a filter, and each filter
\* (one that matches records, one that matches none) without and with a limit
SearchOptions ==
  {[limit |-> l, application |-> "", docId |-> ""] :
     l \in {<<>>} \cup {<<n>> : n \in (-1)..MaxLimit}}
  \cup {[limit |-> l, application |-> a, docId |-> ""] :
          l \in {<<>>, <<1>>}, a \in {"hr", "erp"}}
  \cup {[limit |-> l, application |-> "", docId |-> d] :
          l \in {<<>>, <<1>>}, d \in {"doc_a1", "doc_zz"}}
  \cup {[limit |-> <<>>, application |-> "hr", docId |-> d] : d \in {"doc_a1", "doc_b2"}}

Queries == {"alpha", "epsilon"}

InitSearch ==
  /\ settings \in {OpenAISettings, JinaSettings, BaseSettings}
  /\ env = NoEnv
  /\ vectorStore = <<>>
  /\ vectorFile \in SeedFiles
  /\ calls = [t \in Tasks |-> Idle]
  /\ ncalls = 0
  /\ lastReturn = NoReturn
  /\ docsDir = {}
  /\ renderCache = <<>>
  /\ clock = 0
  /\ deletedDocs = {}
  /\ uploadsDir = {}
  /\ documentsSheet = {}

NextSearch ==
  \/ \E q \in Queries, o \in SearchOptions : SearchCall(1, q, o)
  \/ \E up \in BOOLEAN : SearchEmbedded(1, up)

SpecSearch == InitSearch /\ [][NextSearch]_vars

----------------------------------------------------------------------------
(* Claims on search, under SpecSearch *)

SearchReturned == lastReturn.op = "search" /\ lastReturn.outcome = "ok"

\* The embedding the gateway returns for the query of the last search
QueryEmbedding ==
  generateEmbeddings(<<lastReturn.args.query>>, settings, env, TRUE).embeddings[1]

Sorted(results) ==
  \A i, j \in DOMAIN results :
    i < j => ~RatLess(results[i].similarity, results[j].similarity)

DistanceIsOneMinusSimilarity(results) ==
  \A i \in DOMAIN results :
    results[i].distance.num * results[i].similarity.den
      = (results[i].similarity.den - results[i].similarity.num) * results[i].distance.den

C6_EmptyResultNotError ==
  (lastReturn.op = "search"
     /\ Candidates(lastReturn.pre, lastReturn.args.options) = <<>>) =>
    /\ lastReturn.outcome = "ok"
    /\ lastReturn.value = <<>>

Matches(c, options) ==
  /\ options.application # "" => c.metadata.application = options.application
  /\ options.docId # "" => c.metadata.docId = options.docId

\* C7: every record a filtered search returns satisfies each given filter; the
\* returned records are distinct stored records, every matching record that is
\* not returned scores no higher than any returned one, and as many are
\* returned as the limit in force (options.limit || 5) and the number of
\* matching records allow.
C7_FiltersRespected ==
  SearchReturned =>
    LET options == lastReturn.args.options
        results == lastReturn.value
        stored == lastReturn.pre
        matching == {i \in DOMAIN stored : Matches(stored[i], options)}
        returned == {i \in matching : \E k \in DOMAIN results : results[k].id = stored[i].id}
        limit == IF options.limit = <<>> \/ options.limit = <<0>> THEN 5
                 ELSE options.limit[1]
    IN  /\ \A k \in DOMAIN results : Matches(results[k], options)
        /\ \A k \in DOMAIN results :
             \E i \in matching :
               /\ stored[i].id = results[k].id
               /\ stored[i].content = results[k].content
               /\ stored[i].metadata = results[k].metadata
               /\ RatEq(results[k].similarity,
                        cosineSimilarity(QueryEmbedding, stored[i].embedding))
        /\ \A k, l \in DOMAIN results : results[k].id = results[l].id => k = l
        /\ \A i \in matching \ returned : \A k \in DOMAIN results :
             ~RatLess(results[k].similarity,
                      cosineSimilarity(QueryEmbedding, stored[i].embedding))
        /\ Len(results) = IF limit >= 0 THEN Min(limit, Cardinality(matching))
                          ELSE Max(Cardinality(matching) + limit, 0)

\* C7 witness: a search with both filters has returned a record while the
\* store holds records that fail one of the filters.
C7_Witness ==
  /\ SearchReturned
  /\ lastReturn.args.options.application # ""
  /\ lastReturn.args.options.docId # ""
  /\ lastReturn.value # <<>>
  /\ \E i \in DOMAIN lastReturn.pre :
       /\ lastReturn.pre[i].metadata.application = lastReturn.args.options.application
       /\ lastReturn.pre[i].metadata.docId # lastReturn.args.options.docId

\* C8: a search fails only with an error of the embedding gateway; when it
\* returns, every candidate whose stored embedding has another length than the
\* query embedding is scored 0, and is returned whenever the limit leaves room
\* for all candidates.
C8_DimensionMismatchScoresZero ==
  lastReturn.op = "search" =>
    LET options == lastReturn.args.options
        stored == lastReturn.pre
        matching == {i \in DOMAIN stored : Matches(stored[i], options)}
    IN  /\ lastReturn.outcome = "error" =>
             lastReturn.error \in {"No API key configured", "Unknown embedding provider",
                                   "ProviderError"}
        /\ SearchReturned =>
             /\ \A k \in DOMAIN lastReturn.value :
                  \A i \in matching :
                    (stored[i].id = lastReturn.value[k].id
                       /\ stored[i].embedding.dim # QueryEmbedding.dim) =>
                      lastReturn.value[k].similarity.num = 0
             /\ (options.limit = <<>> /\ Cardinality(matching) <= 5) =>
                  \A i \in matching :
                    \E k \in DOMAIN lastReturn.value : lastReturn.value[k].id = stored[i].id

\* C8 witness: a store that holds one 768-dim vector, queried with a 1536-dim
\* embedding, has returned that record with similarity 0.
C8_Witness ==
  /\ SearchReturned
  /\ Len(lastReturn.pre) = 1
  /\ lastReturn.pre[1].embedding.dim = 768
  /\ QueryEmbedding.dim = 1536
  /\ Len(lastReturn.value) = 1
  /\ lastReturn.value[1].similarity.num = 0
  /\ lastReturn.value[1].id = lastReturn.pre[1].id

----------------------------------------------------------------------------
(* SpecGateway: the embedding gateway over the settings and the environment *)

GatewaySettings ==
  {[embedding_provider |-> p, embedding_model |-> m, embedding_use_chat_key |-> u,
    api_key |-> k, embedding_api_key |-> ek, ollama_url |-> ""] :
     p \in {"", "openai", "openrouter", "cohere", "jina", "ollama", "voyage"},
     m \in {"", "text-embedding-3-large"},
     u \in {"", "true"},
     k \in {"", encrypt("sk-chat"), "sk-legacy-plain"},
     ek \in {"", encrypt("sk-embed"), "9f2c:corrupt"}}

Environments ==
  {NoEnv, [v \in EnvVars |-> EnvKeyOf(v)],
   [v \in EnvVars |-> IF v = "OPENAI_API_KEY" THEN EnvKeyOf(v) ELSE ""]}

\* One call of generateEmbeddings(texts)
GenerateEmbeddingsCall(t, texts, up) ==
  /\ calls[t].pc = "idle"
  /\ ncalls < MaxCalls
  /\ ncalls' = ncalls + 1
  /\ LET gw == generateEmbeddings(texts, settings, env, up)
     IN  lastReturn' = Returned("generateEmbeddings", t, [texts |-> texts],
                                gw.outcome, gw.error, gw.names,
                                [embeddings |-> gw.embeddings, invoked |-> gw.invoked],
                                <<>>, <<>>)
  /\ UNCHANGED <<settings, env, storeVars, calls, docVars>>

\* One call of getEmbeddingConfig()
GetEmbeddingConfigCall(t) ==
  /\ calls[t].pc = "idle"
  /\ ncalls < MaxCalls
  /\ ncalls' = ncalls + 1
  /\ lastReturn' = Returned("getEmbeddingConfig", t, <<>>, "ok", "", "",
                            getEmbeddingConfig(settings, env), <<>>, <<>>)
  /\ UNCHANGED <<settings, env, storeVars, calls, docVars>>

InitGateway ==
  /\ settings \in GatewaySettings
  /\ env \in Environments
  /\ vectorStore = <<>>
  /\ vectorFile = <<>>
  /\ calls = [t \in Tasks |-> Idle]
  /\ ncalls = 0
  /\ lastReturn = NoReturn
  /\ docsDir = {}
  /\ renderCache = <<>>
  /\ clock = 0
  /\ deletedDocs = {}
  /\ uploadsDir = {}
  /\ documentsSheet = {}

NextGateway ==
  \/ \E texts \in {<<"alpha">>, <<"beta", "gamma">>}, up \in BOOLEAN :
       GenerateEmbeddingsCall(1, texts, up)
  \/ GetEmbeddingConfigCall(1)

SpecGateway == InitGateway /\ [][NextGateway]_vars

----------------------------------------------------------------------------
(* Claims on the gateway, under SpecGateway *)

\* The stored key that the settings select, and the provider they select
SelectedStoredKey ==
  IF settings.embedding_use_chat_key = "true" THEN settings.api_key
  ELSE settings.embedding_api_key

SelectedProvider ==
  IF settings.embedding_provider # "" THEN settings.embedding_provider ELSE "openai"

\* The environment-variable default of the selected provider ("" when unset)
EnvDefault == EnvApiKey(SelectedProvider, env)

\* C9 (as claimed): when the selected stored key does not decrypt, the apiKey
\* of the resolved configuration is not the stored ciphertext but the
\* environment default of the selected provider, or absent.
C9_CiphertextNeverUsedAsKey ==
  (lastReturn.op = "getEmbeddingConfig"
     /\ SelectedStoredKey # "" /\ decrypt(SelectedStoredKey) = "") =>
    /\ lastReturn.value.apiKey # SelectedStoredKey
    /\ lastReturn.value.apiKey = EnvDefault

\* A usable credential: a stored key that decrypts, or the environment default
UsableCredential == decrypt(SelectedStoredKey) # "" \/ EnvDefault # ""

\* The endpoints that belong to each provider
EndpointsOf(provider) ==
  IF provider = "openai" THEN {"api.openai.com"}
  ELSE IF provider = "openrouter" THEN {"openrouter.ai/api/v1"}
  ELSE IF provider = "cohere" THEN {"api.cohere.ai/v1/embed"}
  ELSE IF provider = "jina" THEN {"api.jina.ai/v1/embeddings"}
  ELSE IF provider = "ollama" THEN {"http://localhost:11434"}
  ELSE {}

\* C10 (as claimed): without a usable credential generateEmbeddings fails,
\* naming the provider, before any backend is called; every backend call goes to
\* the configured provider; an unknown provider fails without a backend call.
C10_ConfigurationErrorBeforeBackend ==
  lastReturn.op = "generateEmbeddings" =>
    /\ ~UsableCredential =>
         /\ lastReturn.outcome = "error"
         /\ lastReturn.names \in {ProviderName(SelectedProvider), SelectedProvider}
         /\ lastReturn.value.invoked = <<>>
    /\ \A k \in DOMAIN lastReturn.value.invoked :
         lastReturn.value.invoked[k].endpoint \in EndpointsOf(SelectedProvider)
    /\ SelectedProvider \notin EMBEDDING_PROVIDERS =>
         /\ lastReturn.outcome = "error"
         /\ lastReturn.value.invoked = <<>>

----------------------------------------------------------------------------
(* documentService.js: cleaning and chunking of extracted text.  A text is *)
(* the sequence of its characters, each a one-character string.            *)

\* The characters \s matches, and those of them that end a line
WhiteSpace == {" ", "\t", "\n", "\r"}
LineTerminators == {"\n", "\r"}

\* The texts of a list from the k-th on, one after the other
RECURSIVE Concat(_, _)
Concat(blocks, k) == IF k > Len(blocks) THEN <<>> ELSE blocks[k] \o Concat(blocks, k + 1)

\* n copies of the character c
Repeat(c, n) == [i \in 1..n |-> c]

\* The text as a string value
RECURSIVE Str(_)
Str(text) ==
  IF Len(text) = 0 THEN ""
  ELSE IF Len(text) = 1 THEN text[1]
  ELSE LET h == Len(text) \div 2
       IN  Str(SubSeq(text, 1, h)) \o Str(SubSeq(text, h + 1, Len(text)))

\* The positions of a text whose character is not in set cs
Outside(text, cs) == {j \in 1..Len(text) : text[j] \notin cs}

\* The length of the run of characters of set cs that starts at text[i]
RunLength(text, i, cs) ==
  LET stops == {j \in Outside(text, cs) : j >= i}
  IN  IF i > Len(text) THEN 0
      ELSE IF stops = {} THEN Len(text) + 1 - i
      ELSE (CHOOSE j \in stops : \A k \in stops : j <= k) - i

\* String.prototype.trim()
TrimStart(text) == SubSeq(text, 1 + RunLength(text, 1, WhiteSpace), Len(text))

TrimEnd(text) ==
  LET stops == Outside(text, WhiteSpace)
  IN  IF stops = {} THEN <<>>
      ELSE SubSeq(text, 1, CHOOSE j \in stops : \A k \in stops : k <= j)

Trim(text) == TrimEnd(TrimStart(text))

\* The characters of a text with their positions, and back
Indexed(text) == [i \in 1..Len(text) |-> [c |-> text[i], i |-> i]]
Chars(kept) == [k \in 1..Len(kept) |-> kept[k].c]

\* .replace(/\r\n/g, '\n').replace(/\r/g, '\n')
NormalizeLineEndings(text) ==
  LET kept == SelectSeq(Indexed(text),
                        LAMBDA e : ~(e.c = "\r" /\ e.i < Len(text) /\ text[e.i + 1] = "\n"))
  IN  [k \in 1..Len(kept) |-> IF kept[k].c = "\r" THEN "\n" ELSE kept[k].c]

\* .replace(/\n{3,}/g, '\n\n'): of a run of three or more newlines the
\* first two stay
CollapseNewlines(text) ==
  Chars(SelectSeq(Indexed(text),
                  LAMBDA e : ~(/\ e.c = "\n" /\ e.i >= 3
                               /\ text[e.i - 1] = "\n" /\ text[e.i - 2] = "\n")))

\* .replace(/[^\S\n]+/g, ' '): a run of whitespace other than newlines
\* becomes one space
CollapseSpaces(text) ==
  LET blank == WhiteSpace \ {"\n"}
      kept == SelectSeq(Indexed(text),
                        LAMBDA e : ~(e.c \in blank /\ e.i >= 2 /\ text[e.i - 1] \in blank))
  IN  [k \in 1..Len(kept) |-> IF kept[k].c \in blank THEN " " ELSE kept[k].c]

\* .replace(/ *\n */g, '\n'): the spaces on both sides of a newline go
StripLineSpaces(text) ==
  LET drop(i) ==
        /\ text[i] = " "
        /\ \/ LET j == i + RunLength(text, i, {" "})
              IN  j <= Len(text) /\ text[j] = "\n"
           \/ \E j \in 1..(i - 1) :
                /\ text[j] = "\n"
                /\ \A k \in (j + 1)..i : text[k] = " "
  IN  Chars(SelectSeq(Indexed(text), LAMBDA e : ~drop(e.i)))

\* cleanText(text), lines 87-100
cleanText(text) ==
  Trim(StripLineSpaces(CollapseSpaces(CollapseNewlines(NormalizeLineEndings(text)))))

DefaultMinContentLength == 50

\* options.minContentLength || 50
MinContentLength(options) ==
  IF options.minContentLength # <<>> /\ options.minContentLength[1] # 0
  THEN options.minContentLength[1]
  ELSE DefaultMinContentLength

\* A page loop that measures the extracted text before it is cleaned
RECURSIVE PagesLoopRawLength(_, _, _, _)
PagesLoopRawLength(pageTexts, k, chunkIndex, minContentLength) ==
  IF k > Len(pageTexts) THEN <<>>
  ELSE LET pageData == pageTexts[k]
           content == cleanText(pageData.text)
       IN  IF Len(pageData.text) < minContentLength
           THEN PagesLoopRawLength(pageTexts, k + 1, chunkIndex, minContentLength)
           ELSE <<[content |-> content, index |-> chunkIndex,
                   tokenCount |-> estimateTokens(content),
                   pageNumber |-> pageData.page, startPage |-> pageData.page,
                   endPage |-> pageData.page]>>
                \o PagesLoopRawLength(pageTexts, k + 1, chunkIndex + 1, minContentLength)

\* chunkByPages(pageTexts, options): the loop from page k on, with chunkIndex
RECURSIVE PagesLoop(_, _, _, _)
PagesLoop(pageTexts, k, chunkIndex, minContentLength) ==
  IF k > Len(pageTexts) THEN <<>>
  ELSE LET pageData == pageTexts[k]
           content == cleanText(pageData.text)
       IN  IF Len(content) < minContentLength
           THEN PagesLoop(pageTexts, k + 1, chunkIndex, minContentLength)
           ELSE <<[content |-> content, index |-> chunkIndex,
                   tokenCount |-> estimateTokens(content),
                   pageNumber |-> pageData.page, startPage |-> pageData.page,
                   endPage |-> pageData.page]>>
                \o PagesLoop(pageTexts, k + 1, chunkIndex + 1, minContentLength)

chunkByPages(pageTexts, options) ==
  PagesLoop(pageTexts, 1, 0, MinContentLength(options))

\* text.slice(start, end) on positions counted from 1, end exclusive
TextSlice(text, start, end) == SubSeq(text, start, end - 1)

\* headerRegex /^(#{1,6})\s+(.+)$/gm tried at position i: <<>> when it does
\* not match there, else the match.  ^ is the start of the text or of a line;
\* \s+ takes as much whitespace, newlines included, as leaves one character
\* that is no line terminator for (.+), which runs to the end of its line.
HeaderMatchAt(text, i) ==
  LET h == RunLength(text, i, {"#"})
      j == i + h
      w == RunLength(text, j, WhiteSpace)
      K == {k \in 1..w : j + k <= Len(text) /\ text[j + k] \notin LineTerminators}
  IN  IF /\ i = 1 \/ text[i - 1] \in LineTerminators
         /\ h >= 1 /\ h <= 6
         /\ K # {}
      THEN LET k == CHOOSE x \in K : \A y \in K : y <= x
               e == j + k + RunLength(text, j + k,
                                      {text[n] : n \in DOMAIN text} \ LineTerminators)
           IN  <<[level |-> h, headerText |-> Trim(TextSlice(text, j + k, e)),
                  index |-> i, endIndex |-> e]>>
      ELSE <<>>

\* The loop of headerRegex.exec(text) from position i on, lines 321-330:
\* the first match at or after i, then the loop from its end on
RECURSIVE HeaderMatches(_, _)
HeaderMatches(text, i) ==
  LET found == {n \in i..Len(text) : HeaderMatchAt(text, n) # <<>>}
      match == HeaderMatchAt(text, CHOOSE n \in found : \A m \in found : n <= m)
  IN  IF found = {} THEN <<>>
      ELSE match \o HeaderMatches(text, match[1].endIndex)

\* Lines 333-349: the sections of the headers from match i on
RECURSIVE HeaderSections(_, _, _, _)
HeaderSections(text, matches, i, minContentLength) ==
  IF i > Len(matches) THEN <<>>
  ELSE LET contentEnd == IF i < Len(matches) THEN matches[i + 1].index ELSE Len(text) + 1
           content == Trim(TextSlice(text, matches[i].endIndex, contentEnd))
       IN  (IF Len(content) >= minContentLength
            THEN <<[header |-> matches[i].headerText, headerLevel |-> matches[i].level,
                    content |-> content]>>
            ELSE <<>>)
           \o HeaderSections(text, matches, i + 1, minContentLength)

\* Lines 351-360: the text before the first header is the section
\* 'Introduction' when it is long enough
WithPreamble(preamble, sections, minContentLength) ==
  IF Len(preamble) >= minContentLength
  THEN <<[header |-> <<"I", "n", "t", "r", "o", "d", "u", "c", "t", "i", "o", "n">>,
          headerLevel |-> 1, content |-> preamble]>> \o sections
  ELSE sections

\* Lines 362-372: a text without headers is the one section 'Document' when
\* it is long enough
WholeDocument(cleanedText, minContentLength) ==
  IF Len(cleanedText) >= minContentLength
  THEN <<[header |-> <<"D", "o", "c", "u", "m", "e", "n", "t">>,
          headerLevel |-> 1, content |-> cleanedText]>>
  ELSE <<>>

\* Lines 333-372 for the matches of the header loop
SectionsOf(text, matches, minContentLength) ==
  IF Len(matches) = 0 THEN WholeDocument(cleanText(text), minContentLength)
  ELSE IF matches[1].index > 1
  THEN WithPreamble(Trim(TextSlice(text, 1, matches[1].index)),
                    HeaderSections(text, matches, 1, minContentLength),
                    minContentLength)
  ELSE HeaderSections(text, matches, 1, minContentLength)

AllSections(text, minContentLength) ==
  SectionsOf(text, HeaderMatches(text, 1), minContentLength)

\* Lines 375-385: the chunk of each section; a null page number is <<>>
SectionChunks(sections) ==
  [k \in 1..Len(sections) |->
     [content |-> <<"#", "#", " ">> \o sections[k].header \o <<"\n", "\n">>
                    \o sections[k].content,
      index |-> k - 1,
      tokenCount |-> estimateTokens(sections[k].content),
      header |-> sections[k].header,
      sectionIndex |-> k,
      pageNumber |-> <<>>, startPage |-> <<>>, endPage |-> <<>>]]

\* chunkByHeaders(text, options)
chunkByHeaders(text, options) ==
  SectionChunks(AllSections(text, MinContentLength(options)))

DEFAULT_CHUNK_SIZE == 500
DEFAULT_CHUNK_OVERLAP == 50

\* The k-th smallest of a set of positions
Nth(S, k) == CHOOSE i \in S : Cardinality({j \in S : j <= i}) = k

\* The pieces of a text between separators, empty ones included; a separator
\* is given by the set of positions where one starts and by its length there
Pieces(text, starts, length) ==
  [k \in 1..(Cardinality(starts) + 1) |->
     SubSeq(text,
            IF k = 1 THEN 1 ELSE Nth(starts, k - 1) + length[Nth(starts, k - 1)],
            IF k > Cardinality(starts) THEN Len(text) ELSE Nth(starts, k) - 1)]

\* String.prototype.split(sep) for a one-character separator
SplitOn(text, sep) ==
  Pieces(text, {i \in 1..Len(text) : text[i] = sep}, [i \in 1..Len(text) |-> 1])

\* cleanedText.split(/\n\n+/): a run of two or more newlines separates
SplitParagraphs(text) ==
  Pieces(text,
         {i \in 1..Len(text) :
            /\ text[i] = "\n" /\ (i = 1 \/ text[i - 1] # "\n")
            /\ RunLength(text, i, {"\n"}) >= 2},
         [i \in 1..Len(text) |-> RunLength(text, i, {"\n"})])

\* Array.prototype.join(' ')
RECURSIVE JoinWords(_, _)
JoinWords(words, k) ==
  IF k > Len(words) THEN <<>>
  ELSE IF k = Len(words) THEN words[k]
  ELSE words[k] \o <<" ">> \o JoinWords(words, k + 1)

\* The overlap loop of chunkText, lines 147-150: the first word it keeps,
\* going down from word i with overlapLen characters kept so far
RECURSIVE OverlapStart(_, _, _, _)
OverlapStart(words, i, overlapLen, overlapChars) ==
  IF i >= 1 /\ overlapLen < overlapChars
  THEN OverlapStart(words, i - 1, overlapLen + Len(words[i]) + 1, overlapChars)
  ELSE i + 1

\* A seed that carries nothing over
OverlapSeedNone(currentChunk, overlapChars) == <<>>

\* Lines 142-156: the buffer that follows a closed chunk
OverlapSeed(currentChunk, overlapChars) ==
  IF overlapChars > 0
  THEN LET words == SplitOn(currentChunk, " ")
           first == OverlapStart(words, Len(words), 0, overlapChars)
       IN  JoinWords(SubSeq(words, first, Len(words)), 1) \o <<" ">>
  ELSE <<>>

\* The paragraph loop of chunkText, lines 135-162, from paragraph k on; it
\* returns the chunks pushed and the buffer left
RECURSIVE TextLoop(_, _, _, _, _, _)
TextLoop(paragraphs, k, currentChunk, chunkIndex, targetChars, overlapChars) ==
  IF k > Len(paragraphs) THEN [chunks |-> <<>>, currentChunk |-> currentChunk,
                               chunkIndex |-> chunkIndex]
  ELSE LET paragraph == paragraphs[k]
           close == /\ Len(currentChunk) + Len(paragraph) > targetChars
                    /\ Len(currentChunk) > 0
           seeded == IF close THEN OverlapSeed(currentChunk, overlapChars)
                     ELSE currentChunk
           rest == TextLoop(paragraphs, k + 1, seeded \o paragraph \o <<"\n", "\n">>,
                            IF close THEN chunkIndex + 1 ELSE chunkIndex,
                            targetChars, overlapChars)
       IN  IF close
           THEN [rest EXCEPT !.chunks =
                   <<[content |-> Trim(currentChunk), index |-> chunkIndex,
                      tokenCount |-> estimateTokens(currentChunk)]>> \o rest.chunks]
           ELSE rest

\* chunkText(text, options)
chunkText(text, options) ==
  LET chunkSize == IF options.chunkSize # <<>> /\ options.chunkSize[1] # 0
                   THEN options.chunkSize[1] ELSE DEFAULT_CHUNK_SIZE
      overlap == IF options.overlap # <<>> /\ options.overlap[1] # 0
                 THEN options.overlap[1] ELSE DEFAULT_CHUNK_OVERLAP
      paragraphs == SplitParagraphs(cleanText(text))
      loop == TextLoop(paragraphs, 1, <<>>, 0, chunkSize * 4, overlap * 4)
  IN  IF Len(Trim(loop.currentChunk)) > 0
      THEN Append(loop.chunks,
                  [content |-> Trim(loop.currentChunk), index |-> loop.chunkIndex,
                   tokenCount |-> estimateTokens(loop.currentChunk)])
      ELSE loop.chunks

----------------------------------------------------------------------------
(* The document routes: upload, delete and on-demand page rendering *)

MaxPages == 1
MaxRequests == 4
MaxTicks == 2

CACHE_MAX_SIZE == 100
CACHE_TTL == 300000

\* The clock advances in halves of the cache's time to live
TimeStep == CACHE_TTL \div 2

\* getStoredPDFPath(docId): the stored file, <<>> for null
getStoredPDFPath(dir, docId) ==
  IF \E f \in dir : f.docId = docId
  THEN <<CHOOSE f \in dir : f.docId = docId>>
  ELSE <<>>

\* keepPDFFile(sourcePath, docId): copyFileSync over whatever is there
keepPDFFile(dir, docId, numPages) ==
  {f \in dir : f.docId # docId} \cup {[docId |-> docId, numPages |-> numPages]}

\* A deleteStoredPDF that leaves the file
deleteStoredPDFSkipped(dir, docId) == dir

\* deleteStoredPDF(docId)
deleteStoredPDF(dir, docId) == {f \in dir : f.docId # docId}

\* The key of a rendered page in renderCache
CacheKey(docId, pageNumber) == docId \o "_" \o ToString(pageNumber)

\* renderCache.get(cacheKey): <<>> for undefined
CacheGet(cache, key) == SelectSeq(cache, LAMBDA e : e.key = key)

\* A cache check that does not look at the age of the entry
CacheHitAnyAge(cache, key, now) == CacheGet(cache, key) # <<>>

\* The cache check of renderPDFPage, lines 527-531
CacheHit(cache, key, now) ==
  /\ CacheGet(cache, key) # <<>>
  /\ now - CacheGet(cache, key)[1].timestamp < CACHE_TTL

\* renderCache.set(key, entry): an existing key keeps its place in the order
CacheSet(cache, entry) ==
  IF \E k \in DOMAIN cache : cache[k].key = entry.key
  THEN [k \in DOMAIN cache |-> IF cache[k].key = entry.key THEN entry ELSE cache[k]]
  ELSE Append(cache, entry)

\* Lines 612-617: evict the oldest key when the cache is full, then set
CacheStore(cache, key, buffer, now) ==
  LET evicted == IF Len(cache) >= CACHE_MAX_SIZE THEN Tail(cache) ELSE cache
  IN  CacheSet(evicted, [key |-> key, buffer |-> buffer, timestamp |-> now])

\* The image of a page of a stored PDF
PageImage(docId, pageNumber) == [png |-> docId, page |-> pageNumber]

\* The docId pattern of the page route, /^doc_[a-z0-9-]+$/, on the ids in use
ValidDocId(docId) == docId \in DocIds

\* The doc_id column of the documents sheet
SheetIds == {r.doc_id : r \in documentsSheet}

\* The ids that uuidv4 does not give to a new upload: those in use or used
\* before, and those that a request in flight names
UsedDocIds ==
  SheetIds \cup deletedDocs \cup {f.docId : f \in docsDir}
    \cup {calls[t].docId :
            t \in {u \in Tasks : calls[u].pc \in {"upload", "uploadSheet", "deleteSheet",
                                                  "renderPDFPage"}}}
    \cup {c.metadata.docId : c \in Range(Loaded.chunks)}

\* An uploaded file: its type by extension, whether pdf-parse can read it,
\* the page texts of a PDF, and the whole text
PdfFile(pageTexts) ==
  [fileType |-> "pdf", readable |-> TRUE, pageTexts |-> pageTexts,
   text |-> Concat(pageTexts, 1)]
MarkdownFile(text) ==
  [fileType |-> "markdown", readable |-> TRUE, pageTexts |-> <<>>, text |-> text]
CorruptPdf ==
  [fileType |-> "pdf", readable |-> FALSE, pageTexts |-> <<>>, text |-> <<>>]
UnreadableMarkdown ==
  [fileType |-> "markdown", readable |-> FALSE, pageTexts |-> <<>>, text |-> <<>>]

NoOptions == [minContentLength |-> <<>>, chunkSize |-> <<>>, overlap |-> <<>>]

\* An extraction whose failure goes unnoticed
ExtractionUnchecked(file) == FALSE

\* extractTextFromPDF throws on a file that pdf-parse cannot read
ExtractionFails(file) == ~file.readable

\* The pages of a PDF as extractTextFromPDF returns them
PageTexts(file) ==
  [k \in 1..Len(file.pageTexts) |-> [page |-> k, text |-> file.pageTexts[k]]]

\* Lines 406-436: the chunker that the type of the file selects
DocumentChunks(file) ==
  IF file.fileType = "markdown" THEN chunkByHeaders(file.text, NoOptions)
  ELSE IF Len(file.pageTexts) > 0 THEN chunkByPages(PageTexts(file), NoOptions)
  ELSE chunkText(file.text, NoOptions)

\* Lines 438-470: the chunks with the document's id and metadata, in the
\* shape the upload route hands to addChunks with its application stamp;
\* the null page numbers of Markdown chunks read as 0 there
\* (chunk.pageNumber || 0).  The header and the sectionIndex that only a
\* Markdown chunk has are optional values.
WithMetadata(raw, file, docId, application, numPages, paged) ==
  [chunks |-> [k \in 1..Len(raw) |->
                 [content |-> Str(raw[k].content), index |-> raw[k].index,
                  tokenCount |-> raw[k].tokenCount,
                  pageNumber |-> IF paged THEN raw[k].pageNumber ELSE 0,
                  startPage |-> IF paged THEN raw[k].startPage ELSE 0,
                  endPage |-> IF paged THEN raw[k].endPage ELSE 0,
                  docId |-> docId,
                  metadata |-> [source |-> docId \o (IF file.fileType = "markdown"
                                                     THEN ".md" ELSE ".pdf"),
                                numPages |-> numPages,
                                fileType |-> file.fileType,
                                header |-> IF file.fileType = "markdown"
                                           THEN <<Str(raw[k].header)>> ELSE <<>>,
                                sectionIndex |-> IF file.fileType = "markdown"
                                                 THEN <<raw[k].sectionIndex>> ELSE <<>>],
                  application |-> application]],
   numPages |-> numPages]

\* processDocument, lines 395-471; numPages of a Markdown file is the
\* number of its chunks
Processed(raw, file, docId, application) ==
  WithMetadata(raw, file, docId, application,
               IF file.fileType = "markdown" THEN Len(raw) ELSE Len(file.pageTexts),
               file.fileType # "markdown" /\ Len(file.pageTexts) > 0)

processDocument(file, docId, application) ==
  Processed(DocumentChunks(file), file, docId, application)

\* What an upload can have persisted, for the record of its return
Persisted ==
  [memory |-> vectorStore, disk |-> vectorFile, docs |-> docsDir, sheet |-> documentsSheet]

\* What the upload route answers: the status, the chunk count of its
\* answer, and the texts it sent to generateEmbeddings
UploadAnswer(status, chunks, embedded) ==
  [status |-> status, chunkCount |-> Len(chunks), embedded |-> embedded]

\* The path multer gives to the temp file of a request: a name of its own
\* (a timestamp and a random number), here the number of the request
TempPath == ncalls + 1

\* deleteFile(filePath): unlink the file if it is there
deleteFile(dir, filePath) == dir \ {filePath}


\* The route between addChunks and its request to the documents sheet:
\* keepPDFFile for a PDF, whose copyFileSync throws when copyOk is FALSE; the
\* catch block then deletes the temp file and answers 500
UploadKeep(t, c, copyOk, embedded) ==
  IF c.file.fileType = "markdown" \/ copyOk
  THEN /\ docsDir' = IF c.file.fileType = "markdown" THEN docsDir
                     ELSE keepPDFFile(docsDir, c.docId, c.numPages)
       /\ calls' = [calls EXCEPT ![t] = [c EXCEPT !.pc = "uploadSheet",
                                                  !.embedded = embedded]]
       /\ uploadsDir' = uploadsDir \cup {c.path}
       /\ UNCHANGED lastReturn
  ELSE /\ lastReturn' =
            Returned("POST /upload", t, [docId |-> c.docId, file |-> c.file], "error",
                     "copyFileSync", "", UploadAnswer(500, c.chunks, embedded), c.pre,
                     [memory |-> vectorStore', disk |-> vectorFile', docs |-> docsDir,
                      sheet |-> documentsSheet])
       /\ calls' = [calls EXCEPT ![t] = Idle]
       /\ uploadsDir' = deleteFile(uploadsDir, c.path)
       /\ UNCHANGED docsDir

\* An addChunks that has no early return for an empty list
UploadProcessedNoEarlyReturn(t, docId, file, result, copyOk) ==
  /\ vectorStore' = <<Loaded>>
  /\ calls' = [calls EXCEPT ![t] =
                 [pc |-> "upload", docId |-> docId, file |-> file,
                  numPages |-> result.numPages, chunks |-> result.chunks,
                  config |-> getEmbeddingConfig(settings, env), embedded |-> <<>>,
                  pre |-> Persisted, path |-> TempPath]]
  /\ uploadsDir' = uploadsDir \cup {TempPath}
  /\ UNCHANGED <<vectorFile, docsDir, lastReturn>>

\* The route from processDocument's result on, up to the first await that
\* another request can overtake
UploadProcessed(t, docId, file, result, copyOk) ==
  LET call == [pc |-> "upload", docId |-> docId, file |-> file,
               numPages |-> result.numPages, chunks |-> result.chunks,
               config |-> getEmbeddingConfig(settings, env), embedded |-> <<>>,
               pre |-> Persisted, path |-> TempPath]
  IN  /\ vectorStore' = <<Loaded>>
      /\ UNCHANGED vectorFile
      /\ IF Len(result.chunks) = 0
         THEN UploadKeep(t, call, copyOk, <<>>)
         ELSE /\ calls' = [calls EXCEPT ![t] = call]
              /\ uploadsDir' = uploadsDir \cup {TempPath}
              /\ UNCHANGED <<docsDir, lastReturn>>

\* POST /upload up to the first await that another request can overtake:
\* multer has written the temp file; a request without an application name
\* is answered 400; else processDocument, whose failure goes to the catch
\* block, the application stamp, then addChunks' loadVectorStore,
\* getEmbeddingConfig and early return for an empty list, after which the
\* route goes on to keepPDFFile
UploadCall(t, docId, file, application, copyOk) ==
  /\ calls[t].pc = "idle"
  /\ ncalls < MaxRequests
  /\ docId \notin UsedDocIds
  /\ ncalls' = ncalls + 1
  /\ IF application = ""
     THEN /\ lastReturn' = Returned("POST /upload", t, [docId |-> "", file |-> file],
                                    "error", "Application name is required", "",
                                    UploadAnswer(400, <<>>, <<>>), Persisted, Persisted)
          /\ uploadsDir' = uploadsDir \cup {TempPath}
          /\ UNCHANGED <<vectorStore, vectorFile, calls, docsDir>>
     ELSE IF ExtractionFails(file)
     THEN /\ lastReturn' = Returned("POST /upload", t, [docId |-> docId, file |-> file],
                                    "error", "extraction", "",
                                    UploadAnswer(500, <<>>, <<>>), Persisted, Persisted)
          /\ uploadsDir' = deleteFile(uploadsDir \cup {TempPath}, TempPath)
          /\ UNCHANGED <<vectorStore, vectorFile, calls, docsDir>>
     ELSE UploadProcessed(t, docId, file, processDocument(file, docId, application), copyOk)
  /\ UNCHANGED <<settings, env, renderCache, clock, deletedDocs, documentsSheet>>

\* The rest of addChunks for the answer gw of generateEmbeddings, then
\* keepPDFFile
UploadStored(t, c, contents, gw, post, diskOk, copyOk) ==
  IF gw.outcome = "error"
  THEN /\ lastReturn' = Returned("POST /upload", t, [docId |-> c.docId, file |-> c.file],
                                 "error", gw.error, gw.names,
                                 UploadAnswer(500, c.chunks, <<contents>>), c.pre, Persisted)
       /\ calls' = [calls EXCEPT ![t] = Idle]
       /\ uploadsDir' = deleteFile(uploadsDir, c.path)
       /\ UNCHANGED <<storeVars, docsDir>>
  ELSE /\ vectorStore' = <<post>>
       /\ vectorFile' = saveVectorStore(<<post>>, vectorFile, diskOk)
       /\ IF diskOk
          THEN UploadKeep(t, c, copyOk, <<contents>>)
          ELSE /\ lastReturn' =
                    Returned("POST /upload", t, [docId |-> c.docId, file |-> c.file],
                             "error", "writeFileSync", "",
                             UploadAnswer(500, c.chunks, <<contents>>), c.pre,
                             [Persisted EXCEPT !.memory = <<post>>])
               /\ calls' = [calls EXCEPT ![t] = Idle]
               /\ uploadsDir' = deleteFile(uploadsDir, c.path)
               /\ UNCHANGED docsDir

\* The contents that addChunks sends to generateEmbeddings, line 333
ChunkContents(chunks) == [k \in 1..Len(chunks) |-> chunks[k].content]

UploadAdded(t, c, contents, gw, diskOk, copyOk) ==
  UploadStored(t, c, contents, gw,
               AddChunksStore(vectorStore[1], c.chunks, "text", c.config, gw.embeddings),
               diskOk, copyOk)

\* POST /upload from the answer of generateEmbeddings on: the rest of
\* addChunks, keepPDFFile, and the request to the documents sheet
UploadEmbedded(t, up, diskOk, copyOk) ==
  /\ calls[t].pc = "upload"
  /\ UploadAdded(t, calls[t], ChunkContents(calls[t].chunks),
                 generateEmbeddings(ChunkContents(calls[t].chunks), settings, env, up),
                 diskOk, copyOk)
  /\ UNCHANGED <<settings, env, ncalls, renderCache, clock, deletedDocs, documentsSheet>>

\* The row that the route asks googleSheets.addDocument to add
DocumentRow(c) ==
  [doc_id |-> c.docId, chunk_count |-> Len(c.chunks), num_pages |-> c.numPages,
   file_type |-> c.file.fileType]

\* The answer of the sheet: the row is added, the temp file deleted and the
\* request answered 200, or the catch block deletes the temp file and
\* answers 500
UploadAnswered(t, c, sheetOk) ==
  IF sheetOk
  THEN /\ documentsSheet' = documentsSheet \cup {DocumentRow(c)}
       /\ lastReturn' =
            Returned("POST /upload", t, [docId |-> c.docId, file |-> c.file], "ok", "", "",
                     UploadAnswer(200, c.chunks, c.embedded), c.pre,
                     [Persisted EXCEPT !.sheet = documentsSheet \cup {DocumentRow(c)}])
  ELSE /\ lastReturn' =
            Returned("POST /upload", t, [docId |-> c.docId, file |-> c.file], "error",
                     "addDocument", "", UploadAnswer(500, c.chunks, c.embedded), c.pre,
                     Persisted)
       /\ UNCHANGED documentsSheet

\* POST /upload from the answer of googleSheets.addDocument on
UploadSaved(t, sheetOk) ==
  /\ calls[t].pc = "uploadSheet"
  /\ UploadAnswered(t, calls[t], sheetOk)
  /\ uploadsDir' = deleteFile(uploadsDir, calls[t].path)
  /\ calls' = [calls EXCEPT ![t] = Idle]
  /\ UNCHANGED <<settings, env, storeVars, ncalls, docsDir, renderCache, clock,
                 deletedDocs>>

\* The ids of the uploads that have stored nothing yet: the server made them
\* and no client has seen them
UnpublishedDocIds == {calls[t].docId : t \in {u \in Tasks : calls[u].pc = "upload"}}

\* DELETE /:docId up to the request to the documents sheet:
\* vectorService.deleteDocument, whose write throws when diskOk is FALSE,
\* deleteStoredPDF, whose unlinkSync throws when unlinkOk is FALSE and the
\* file is there, and deleteDocumentImages, which swallows its errors
DeleteRouteCall(t, docId, diskOk, unlinkOk) ==
  /\ calls[t].pc = "idle"
  /\ ncalls < MaxRequests
  /\ docId \notin UnpublishedDocIds
  /\ ncalls' = ncalls + 1
  /\ LET post == [Loaded EXCEPT !.chunks = DeleteFilter(Loaded.chunks, docId)]
     IN  /\ vectorStore' = <<post>>
         /\ vectorFile' = saveVectorStore(<<post>>, vectorFile, diskOk)
  /\ IF diskOk /\ (unlinkOk \/ getStoredPDFPath(docsDir, docId) = <<>>)
     THEN /\ docsDir' = deleteStoredPDF(docsDir, docId)
          /\ calls' = [calls EXCEPT ![t] = [pc |-> "deleteSheet", docId |-> docId]]
          /\ UNCHANGED lastReturn
     ELSE /\ lastReturn' = Returned("DELETE /:docId", t, [docId |-> docId], "error",
                                    "Failed to delete document", "", 500, <<>>, <<>>)
          /\ UNCHANGED <<docsDir, calls>>
  /\ UNCHANGED <<settings, env, renderCache, clock, deletedDocs, documentsSheet,
                 uploadsDir>>

\* DELETE /:docId from the answer of googleSheets.deleteDocument on
DeleteRouteDone(t, sheetOk) ==
  /\ calls[t].pc = "deleteSheet"
  /\ LET docId == calls[t].docId
         args == [docId |-> docId]
     IN  IF ~sheetOk
         THEN /\ lastReturn' = Returned("DELETE /:docId", t, args, "error",
                                        "Failed to delete document", "", 500, <<>>, <<>>)
              /\ UNCHANGED <<documentsSheet, deletedDocs>>
         ELSE IF docId \notin SheetIds
         THEN /\ lastReturn' = Returned("DELETE /:docId", t, args, "error",
                                        "Document not found", "", 404, <<>>, <<>>)
              /\ UNCHANGED <<documentsSheet, deletedDocs>>
         ELSE /\ documentsSheet' = {r \in documentsSheet : r.doc_id # docId}
              /\ deletedDocs' = deletedDocs \cup {docId}
              /\ lastReturn' = Returned("DELETE /:docId", t, args, "ok", "", "", 200,
                                        <<>>, <<>>)
  /\ calls' = [calls EXCEPT ![t] = Idle]
  /\ UNCHANGED <<settings, env, storeVars, ncalls, docsDir, renderCache, clock,
                 uploadsDir>>

\* What the page route answers with, beside the status or the image: whether
\* the cache was hit, how the renderers were found (<<>> when none was
\* reached), the renderers tried, the cache before and after the step that
\* answers, and the time
RenderAnswer(hit, renderers, attempted, after) ==
  [hit |-> hit, renderers |-> renderers, attempted |-> attempted,
   before |-> renderCache, cache |-> after, now |-> clock]

\* GET /:docId/page/:pageNum up to the first await of renderPDFPage: the
\* route's validation, the cache check and getStoredPDFPath
RenderPageCall(t, docId, pageNumber) ==
  /\ calls[t].pc = "idle"
  /\ ncalls < MaxRequests
  /\ ncalls' = ncalls + 1
  /\ \E pre \in {[deleted |-> deletedDocs, now |-> clock,
                  found |-> CacheGet(renderCache, CacheKey(docId, pageNumber)),
                  stored |-> getStoredPDFPath(docsDir, docId)]},
        args \in {[docId |-> docId, pageNumber |-> pageNumber]},
        op \in {"GET /:docId/page/:pageNum"},
        miss \in {RenderAnswer(FALSE, <<>>, <<>>, renderCache)} :
       IF pageNumber < 1
       THEN /\ lastReturn' = Returned(op, t, args, "error", "Invalid page number", "",
                                      400, pre, miss)
            /\ UNCHANGED calls
       ELSE IF ~ValidDocId(docId)
       THEN /\ lastReturn' = Returned(op, t, args, "error",
                                      "Invalid document ID format", "", 400, pre, miss)
            /\ UNCHANGED calls
       ELSE IF CacheHit(renderCache, CacheKey(docId, pageNumber), clock)
       THEN /\ lastReturn' = Returned(op, t, args, "ok", "", "",
                                      CacheGet(renderCache,
                                               CacheKey(docId, pageNumber))[1].buffer,
                                      pre, RenderAnswer(TRUE, <<>>, <<>>, renderCache))
            /\ UNCHANGED calls
       ELSE IF getStoredPDFPath(docsDir, docId) = <<>>
       THEN /\ lastReturn' = Returned(op, t, args, "error", "PDF not found", docId,
                                      404, pre, miss)
            /\ UNCHANGED calls
       ELSE /\ calls' = [calls EXCEPT ![t] =
                           [pc |-> "renderPDFPage", docId |-> docId,
                            pageNumber |-> pageNumber, pre |-> pre]]
            /\ UNCHANGED lastReturn
  /\ UNCHANGED <<settings, env, storeVars, docVars>>

\* The ways pdftoppm can go: not installed (no path answers -v), installed
\* and failing, installed and working
Rasterizers == {"absent", "fails", "ok"}

\* Lines 556-590: pdftoppm gives an image when it is installed and works and
\* the file has the page; anything else leaves imageBuffer null
PdftoppmRenders(pdftoppm, file, pageNumber) ==
  pdftoppm = "ok" /\ file # <<>> /\ pageNumber <= file[1].numPages

\* The renderers that renderPDFPage runs
Attempted(pdftoppm, file, pageNumber) ==
  IF pdftoppm = "absent" THEN <<"pdf-to-img">>
  ELSE IF PdftoppmRenders(pdftoppm, file, pageNumber) THEN <<"pdftoppm">>
  ELSE <<"pdftoppm", "pdf-to-img">>

\* How the renderers were found, for the record of the answer
Renderers(pdftoppm, fallbackOk) == <<[pdftoppm |-> pdftoppm, fallbackOk |-> fallbackOk]>>

\* A renderPDFPage that puts in the cache whatever the renderers left, an
\* image or null, before it looks at it
RenderPageAnswerCaching(t, c, file, pdftoppm, fallbackOk, args, op) ==
  /\ renderCache' = CacheStore(renderCache, CacheKey(c.docId, c.pageNumber),
                               IF PdftoppmRenders(pdftoppm, file, c.pageNumber)
                                    \/ (fallbackOk /\ file # <<>>
                                          /\ c.pageNumber <= file[1].numPages)
                               THEN PageImage(c.docId, c.pageNumber)
                               ELSE [png |-> "", page |-> 0],
                               clock)
  /\ lastReturn' =
       IF PdftoppmRenders(pdftoppm, file, c.pageNumber)
            \/ (fallbackOk /\ file # <<>> /\ c.pageNumber <= file[1].numPages)
       THEN Returned(op, t, args, "ok", "", "", PageImage(c.docId, c.pageNumber), c.pre,
                     RenderAnswer(FALSE, Renderers(pdftoppm, fallbackOk),
                                  Attempted(pdftoppm, file, c.pageNumber), renderCache'))
       ELSE Returned(op, t, args, "error", "Failed to render page", "", 500, c.pre,
                     RenderAnswer(FALSE, Renderers(pdftoppm, fallbackOk),
                                  Attempted(pdftoppm, file, c.pageNumber), renderCache'))

\* Lines 556-619 and the route's answer, for the stored file as the
\* renderers find it: an image from pdftoppm or from the fallback is put in
\* the cache and sent; the fallback throws 'out of range' when it can open
\* the file and the file has no such page, and whatever else it throws is
\* answered 500
RenderPageAnswer(t, c, file, pdftoppm, fallbackOk, args, op) ==
  IF PdftoppmRenders(pdftoppm, file, c.pageNumber)
       \/ (fallbackOk /\ file # <<>> /\ c.pageNumber <= file[1].numPages)
  THEN /\ renderCache' = CacheStore(renderCache, CacheKey(c.docId, c.pageNumber),
                                    PageImage(c.docId, c.pageNumber), clock)
       /\ lastReturn' =
            Returned(op, t, args, "ok", "", "", PageImage(c.docId, c.pageNumber), c.pre,
                     RenderAnswer(FALSE, Renderers(pdftoppm, fallbackOk),
                                  Attempted(pdftoppm, file, c.pageNumber), renderCache'))
  ELSE /\ UNCHANGED renderCache
       /\ lastReturn' =
            IF fallbackOk /\ file # <<>>
            THEN Returned(op, t, args, "error", "out of range", "", 400, c.pre,
                          RenderAnswer(FALSE, Renderers(pdftoppm, fallbackOk),
                                       Attempted(pdftoppm, file, c.pageNumber),
                                       renderCache))
            ELSE Returned(op, t, args, "error", "Failed to render page", "", 500, c.pre,
                          RenderAnswer(FALSE, Renderers(pdftoppm, fallbackOk),
                                       Attempted(pdftoppm, file, c.pageNumber),
                                       renderCache))

\* GET /:docId/page/:pageNum from the answer of the rasterizer on: pdftoppm,
\* then the pdf-to-img fallback with its check of the page against the
\* document's length, and the image is put in the cache
RenderPageDone(t, pdftoppm, fallbackOk) ==
  /\ calls[t].pc = "renderPDFPage"
  /\ RenderPageAnswer(t, calls[t], getStoredPDFPath(docsDir, calls[t].docId), pdftoppm,
                      fallbackOk,
                      [docId |-> calls[t].docId, pageNumber |-> calls[t].pageNumber],
                      "GET /:docId/page/:pageNum")
  /\ calls' = [calls EXCEPT ![t] = Idle]
  /\ UNCHANGED <<settings, env, storeVars, ncalls, docsDir, clock, deletedDocs,
                 documentsSheet, uploadsDir>>

\* Time passes
Tick ==
  /\ clock < MaxTicks * TimeStep
  /\ clock' = clock + TimeStep
  /\ UNCHANGED <<settings, env, storeVars, calls, ncalls, lastReturn, docsDir,
                 renderCache, deletedDocs, documentsSheet, uploadsDir>>

\* The files uploaded under SpecDocs: PDFs of up to MaxPages pages with text
DocsFiles == {PdfFile([k \in 1..n |-> Repeat("a", 50)]) : n \in 1..MaxPages}

InitDocs == Init

NextDocs ==
  \/ \E t \in Tasks, d \in DocIds, file \in DocsFiles : UploadCall(t, d, file, "hr", TRUE)
  \/ \E t \in Tasks, up \in BOOLEAN : UploadEmbedded(t, up, TRUE, TRUE)
  \/ \E t \in Tasks, sheetOk \in BOOLEAN : UploadSaved(t, sheetOk)
  \/ \E t \in Tasks, d \in DocIds, diskOk \in BOOLEAN : DeleteRouteCall(t, d, diskOk, TRUE)
  \/ \E t \in Tasks, sheetOk \in BOOLEAN : DeleteRouteDone(t, sheetOk)
  \/ \E t \in Tasks, d \in DocIds, p \in 1..(MaxPages + 1) : RenderPageCall(t, d, p)
  \/ \E t \in Tasks, fallbackOk \in BOOLEAN : RenderPageDone(t, "ok", fallbackOk)
  \/ Tick

SpecDocs == InitDocs /\ [][NextDocs]_vars

----------------------------------------------------------------------------
(* Claims on the document routes, under SpecDocs *)

\* C2 (as claimed): a page request for a docId that arrives after the delete
\* route has answered with success for that docId fails with a not-found
\* error, and neither a stored PDF nor a cache entry of a deleted docId exists.
C2_RenderAfterDeleteNotFound ==
  /\ (lastReturn.op = "GET /:docId/page/:pageNum"
        /\ lastReturn.args.pageNumber >= 1
        /\ lastReturn.args.docId \in lastReturn.pre.deleted) =>
       /\ lastReturn.outcome = "error"
       /\ lastReturn.error = "PDF not found"
  /\ \A d \in deletedDocs :
       /\ getStoredPDFPath(docsDir, d) = <<>>
       /\ \A k \in DOMAIN renderCache : renderCache[k].buffer.png # d

----------------------------------------------------------------------------
(* SpecChunk: the chunking functions applied to bounded texts *)

MaxPageTexts == 3

\* Extracted page texts: blank, at and just under the default minimum, padded
\* with whitespace, with a paragraph break, and short ones
PageSamples ==
  {<<>>,
   Repeat("a", 50),
   Repeat("a", 49),
   <<" ", "\n">> \o Repeat("a", 49) \o <<" ", "\t">>,
   Repeat("a", 25) \o <<"\r", "\n", "\n", "\n", "\n">> \o Repeat("b", 25),
   <<"a", "b", "c">>,
   <<"a", " ", " ", "b">>,
   <<" ", "a", "b", " ">>}

\* What extractTextFromPDF hands on: the pages numbered from 1
PageTextLists ==
  UNION {{[k \in 1..n |-> [page |-> k, text |-> f[k]]] : f \in [1..n -> PageSamples]} :
           n \in 0..MaxPageTexts}

PageOptions == {[minContentLength |-> m] : m \in {<<>>, <<0>>, <<3>>}}

\* The calls of the chunking functions that the model makes
ChunkByPagesCalls ==
  {[pc |-> "chunkByPages", pageTexts |-> pageTexts, options |-> options] :
     pageTexts \in PageTextLists, options \in PageOptions}

\* chunkByPages(pageTexts, options) runs and returns
ChunkByPagesCall(t) ==
  /\ calls[t].pc = "chunkByPages"
  /\ LET c == calls[t]
     IN  lastReturn' = Returned("chunkByPages", t,
                                [pageTexts |-> c.pageTexts, options |-> c.options],
                                "ok", "", "", chunkByPages(c.pageTexts, c.options),
                                <<>>, <<>>)
  /\ calls' = [calls EXCEPT ![t] = Idle]
  /\ UNCHANGED <<settings, env, storeVars, ncalls, docVars>>

\* Markdown texts: the concatenations of up to MaxSections blocks, each a
\* heading with a short, a long or no body, a paragraph, or a line of seven #
MaxSections == 3

MarkdownBlocks ==
  {<<"#", " ", "A", "\n", "f", "o", "o", "\n", "\n">>,
   <<"#", "#", " ", "B", "\n">> \o Repeat("y", 50) \o <<"\n">>,
   Repeat("p", 50) \o <<"\n">>,
   <<"#", "#", "#", "#", "#", "#", "#", " ", "z", "\n">>,
   <<"#", "#", "#", "\t", "C", " ", "\r", "\n">>}

MarkdownTexts ==
  UNION {{Concat(f, 1) : f \in [1..n -> MarkdownBlocks]} : n \in 0..MaxSections}
    \cup {<<"#", " ", "A", "\n", "f", "o", "o", "\n", "\n", "#", " ", "B", "\n", "b", "a", "r">>,
          <<" ", "\n", "\t">>}

ChunkByHeadersCalls ==
  {[pc |-> "chunkByHeaders", text |-> text, options |-> options] :
     text \in MarkdownTexts, options \in PageOptions}

\* chunkByHeaders(text, options) runs and returns
ChunkByHeadersCall(t) ==
  /\ calls[t].pc = "chunkByHeaders"
  /\ LET c == calls[t]
     IN  lastReturn' = Returned("chunkByHeaders", t,
                                [text |-> c.text, options |-> c.options],
                                "ok", "", "", chunkByHeaders(c.text, c.options),
                                <<>>, <<>>)
  /\ calls' = [calls EXCEPT ![t] = Idle]
  /\ UNCHANGED <<settings, env, storeVars, ncalls, docVars>>

\* Plain texts: up to MaxParagraphs paragraphs of words, each followed by a
\* paragraph break as the extraction may give it
MaxParagraphs == 3

ParagraphSamples ==
  {<<"a", "b", " ", "c", "d">>,
   <<"e", "f", "g">>,
   <<"h", " ", "i", " ", "j", " ", "k">>,
   <<"l", "m", "n", "o", "p", "q", "r", "s", "t", "u">>}

ParagraphBreaks == {<<"\n", "\n">>, <<" ", "\r", "\n", "\r", "\n", "\n">>}

PlainTexts ==
  UNION {{Concat(f, 1) : f \in [1..n -> {p \o b : p \in ParagraphSamples,
                                                  b \in ParagraphBreaks}]} :
           n \in 0..MaxParagraphs}

TextOptions ==
  {[chunkSize |-> c, overlap |-> o] : c \in {<<>>, <<2>>, <<1>>}, o \in {<<>>, <<1>>}}

ChunkTextCalls ==
  {[pc |-> "chunkText", text |-> text, options |-> options] :
     text \in PlainTexts, options \in TextOptions}

\* chunkText(text, options) runs and returns
ChunkTextCall(t) ==
  /\ calls[t].pc = "chunkText"
  /\ LET c == calls[t]
     IN  lastReturn' = Returned("chunkText", t, [text |-> c.text, options |-> c.options],
                                "ok", "", "", chunkText(c.text, c.options), <<>>, <<>>)
  /\ calls' = [calls EXCEPT ![t] = Idle]
  /\ UNCHANGED <<settings, env, storeVars, ncalls, docVars>>

ChunkCalls == ChunkByPagesCalls \cup ChunkByHeadersCalls \cup ChunkTextCalls

InitChunk ==
  /\ settings = OpenAISettings
  /\ env = NoEnv
  /\ vectorStore = <<>>
  /\ vectorFile = <<>>
  /\ calls \in {[t \in Tasks |-> IF t = 1 THEN c ELSE Idle] : c \in ChunkCalls}
  /\ ncalls = 1
  /\ lastReturn = NoReturn
  /\ docsDir = {}
  /\ renderCache = <<>>
  /\ clock = 0
  /\ deletedDocs = {}
  /\ uploadsDir = {}
  /\ documentsSheet = {}

NextChunk ==
  \/ ChunkByPagesCall(1)
  \/ ChunkByHeadersCall(1)
  \/ ChunkTextCall(1)

SpecChunk == InitChunk /\ [][NextChunk]_vars

----------------------------------------------------------------------------
(* Claims on chunking, under SpecChunk *)

\* The pages of a list whose cleaned text has at least min characters
PagesWithContent(pageTexts, min) ==
  {pageTexts[k].page : k \in {j \in DOMAIN pageTexts :
                                Len(cleanText(pageTexts[j].text)) >= min}}

\* C11: chunkByPages gives exactly one chunk for each page whose cleaned text
\* has at least the minimum content length in force (50 by default) and none
\* for another page; the chunks are in page order without repetition, each has
\* pageNumber = startPage = endPage, and the indices are 0, 1, 2, ...
C11_OneChunkPerPageWithContent ==
  lastReturn.op = "chunkByPages" =>
    LET chunks == lastReturn.value
        pageTexts == lastReturn.args.pageTexts
        min == MinContentLength(lastReturn.args.options)
    IN  /\ {chunks[i].pageNumber : i \in DOMAIN chunks} = PagesWithContent(pageTexts, min)
        /\ Len(chunks) = Cardinality(PagesWithContent(pageTexts, min))
        /\ \A i \in DOMAIN chunks :
             /\ chunks[i].index = i - 1
             /\ chunks[i].startPage = chunks[i].pageNumber
             /\ chunks[i].endPage = chunks[i].pageNumber
             /\ chunks[i].content = cleanText(pageTexts[chunks[i].pageNumber].text)
        /\ \A i, j \in DOMAIN chunks : i < j => chunks[i].pageNumber < chunks[j].pageNumber

\* C11 witness: three pages with the default minimum, pages 1 and 3 with
\* text and page 2 blank, give two chunks with pageNumber 1 and 3
C11_Witness ==
  /\ lastReturn.op = "chunkByPages"
  /\ lastReturn.args.options.minContentLength = <<>>
  /\ Len(lastReturn.args.pageTexts) = 3
  /\ lastReturn.args.pageTexts[2].text = <<>>
  /\ Len(lastReturn.value) = 2
  /\ lastReturn.value[1].pageNumber = 1 /\ lastReturn.value[1].index = 0
  /\ lastReturn.value[2].pageNumber = 3 /\ lastReturn.value[2].index = 1

\* C12 (as claimed): chunkByHeaders gives one chunk for each heading line of
\* the text, in order, with header equal to the heading text, sectionIndex
\* 1, 2, ..., n and no page number.
C12_OneChunkPerHeading ==
  lastReturn.op = "chunkByHeaders" =>
    LET chunks == lastReturn.value
        headings == HeaderMatches(lastReturn.args.text, 1)
    IN  /\ Len(chunks) = Len(headings)
        /\ \A k \in DOMAIN chunks :
             /\ chunks[k].header = headings[k].headerText
             /\ chunks[k].sectionIndex = k
             /\ chunks[k].pageNumber = <<>>

\* needle occurs in hay; prefix begins hay
Contains(hay, needle) ==
  \E o \in 0..(Len(hay) - Len(needle)) : SubSeq(hay, o + 1, o + Len(needle)) = needle

StartsWith(hay, prefix) ==
  Len(prefix) <= Len(hay) /\ SubSeq(hay, 1, Len(prefix)) = prefix

\* The trailing words of a chunk: its suffixes that start at a word
TrailingWords(content) ==
  {SubSeq(content, b, Len(content)) :
     b \in {i \in 1..Len(content) : i = 1 \/ content[i - 1] = " "}}

\* The paragraphs from k on occur in the chunks from c on, in order
RECURSIVE InOrder(_, _, _, _)
InOrder(paragraphs, k, chunks, c) ==
  IF k > Len(paragraphs) THEN TRUE
  ELSE \E d \in c..Len(chunks) :
         /\ Contains(chunks[d].content, paragraphs[k])
         /\ InOrder(paragraphs, k + 1, chunks, d)

\* C13: in the result of chunkText every chunk after the first begins with
\* trailing words of the chunk before it, verbatim, followed by a paragraph
\* of the text; the indices are 0, 1, 2, ... and every paragraph of the
\* cleaned text occurs in some chunk, in order.
C13_OverlapCarriedVerbatim ==
  lastReturn.op = "chunkText" =>
    LET chunks == lastReturn.value
        paragraphs == SelectSeq(SplitParagraphs(cleanText(lastReturn.args.text)),
                                LAMBDA p : p # <<>>)
    IN  /\ \A i \in DOMAIN chunks : chunks[i].index = i - 1
        /\ \A i \in 1..(Len(chunks) - 1) :
             \E S \in TrailingWords(chunks[i].content), k \in DOMAIN paragraphs :
               StartsWith(chunks[i + 1].content,
                          S \o <<"\n", "\n", " ">> \o paragraphs[k])
        /\ InOrder(paragraphs, 1, chunks, 1)

\* C13 witness: a text cut into three chunks or more with an overlap of one
\* token, where the second chunk carries less than the whole first chunk
C13_Witness ==
  /\ lastReturn.op = "chunkText"
  /\ lastReturn.args.options.overlap = <<1>>
  /\ Len(lastReturn.value) >= 3
  /\ ~StartsWith(lastReturn.value[2].content, lastReturn.value[1].content)
  /\ \E S \in TrailingWords(lastReturn.value[1].content) :
       StartsWith(lastReturn.value[2].content, S \o <<"\n", "\n", " ">>)

----------------------------------------------------------------------------
(* SpecUpload: the upload route on files of every kind, with the failures *)
(* of the embedding backend, the disk and the documents sheet             *)

\* The uploads of a behaviour
MaxUploads == 2

\* A page and a section long enough for a chunk, and blank texts
LongText == Repeat("a", DefaultMinContentLength)

\* The uploaded files: blank documents of both types, documents with text,
\* a Markdown file whose only section is too short, and unreadable files
UploadFiles ==
  {PdfFile(<<>>), PdfFile(<<<<" ">>>>), PdfFile(<<<<>>, <<" ", "\n", "\t">>>>),
   PdfFile(<<LongText>>), PdfFile(<<LongText, <<" ">>>>),
   MarkdownFile(<<>>), MarkdownFile(<<" ", "\n", "\t">>),
   MarkdownFile(<<"#", " ", "A", "\n">> \o LongText),
   MarkdownFile(<<"#", " ", "A", "\n", "b">>),
   CorruptPdf, UnreadableMarkdown}

\* The store files an upload finds: none, or one with a document
UploadSeedFiles ==
  {<<>>, <<Ingested(EmptyStore, TextChunks("doc_a1", 1, 1, "hr"), OpenAISettings)>>}

\* The server has answered all but MaxUploads of its MaxRequests requests
UploadSeeded(file) ==
  /\ settings = OpenAISettings
  /\ env = NoEnv
  /\ vectorStore = <<>>
  /\ vectorFile = file
  /\ calls = [t \in Tasks |-> Idle]
  /\ ncalls = MaxRequests - MaxUploads
  /\ lastReturn = NoReturn
  /\ docsDir = IF file = <<>> THEN {} ELSE {[docId |-> "doc_a1", numPages |-> 1]}
  /\ renderCache = <<>>
  /\ clock = 0
  /\ deletedDocs = {}
  /\ uploadsDir = {}
  /\ documentsSheet = IF file = <<>> THEN {}
                      ELSE {[doc_id |-> "doc_a1", chunk_count |-> 1, num_pages |-> 1,
                             file_type |-> "pdf"]}

InitUpload == \E file \in UploadSeedFiles : UploadSeeded(file)

NextUpload ==
  \/ \E t \in Tasks, d \in DocIds, file \in UploadFiles, copyOk \in BOOLEAN :
       UploadCall(t, d, file, "hr", copyOk)
  \/ \E t \in Tasks, up \in BOOLEAN, diskOk \in BOOLEAN, copyOk \in BOOLEAN :
       UploadEmbedded(t, up, diskOk, copyOk)
  \/ \E t \in Tasks, sheetOk \in BOOLEAN : UploadSaved(t, sheetOk)

SpecUpload == InitUpload /\ [][NextUpload]_vars

----------------------------------------------------------------------------
(* Claims on the upload route, under SpecUpload *)

\* A document without a character that is not whitespace
Blank(file) ==
  /\ \A i \in DOMAIN file.text : file.text[i] \in WhiteSpace
  /\ \A k \in DOMAIN file.pageTexts :
       \A i \in DOMAIN file.pageTexts[k] : file.pageTexts[k][i] \in WhiteSpace

\* The store that a reader finds in a snapshot of what is persisted
StoreContent(snapshot) == loadVectorStore(snapshot.memory, snapshot.disk)[1]

\* The sheet rows and the stored chunks of a docId in a snapshot
RowsOf(snapshot, docId) == {r \in snapshot.sheet : r.doc_id = docId}
VectorsOf(store, docId) ==
  IF store = <<>> THEN <<>>
  ELSE SelectSeq(store[1].chunks, LAMBDA c : c.metadata.docId = docId)

\* What C14 says of the answer to the upload of a blank document
BlankUploadAnswer ==
  (lastReturn.op = "POST /upload" /\ lastReturn.args.file.readable
     /\ Blank(lastReturn.args.file)) =>
    /\ chunkByPages(PageTexts(lastReturn.args.file), NoOptions) = <<>>
    /\ chunkByHeaders(lastReturn.args.file.text, NoOptions) = <<>>
    /\ chunkText(lastReturn.args.file.text, NoOptions) = <<>>
    /\ lastReturn.value.embedded = <<>>
    /\ lastReturn.value.chunkCount = 0
    /\ IF lastReturn.outcome = "ok"
       THEN /\ lastReturn.value.status = 200
            /\ RowsOf(lastReturn.post, lastReturn.args.docId)
                 = {[doc_id |-> lastReturn.args.docId, chunk_count |-> 0,
                     num_pages |-> Len(lastReturn.args.file.pageTexts),
                     file_type |-> lastReturn.args.file.fileType]}
       ELSE lastReturn.error \in {"copyFileSync", "addDocument"}

\* A step of the upload of a blank document by task t: the route up to
\* keepPDFFile, which goes on to the sheet or fails at the copy, or the
\* route from the sheet's answer on
BlankUploadStep(t) ==
  \/ /\ calls[t].pc = "idle"
     /\ \/ calls'[t].pc = "uploadSheet" /\ Blank(calls'[t].file)
        \/ /\ lastReturn' # lastReturn
           /\ lastReturn'.task = t
           /\ lastReturn'.op = "POST /upload"
           /\ lastReturn'.error = "copyFileSync"
           /\ Blank(lastReturn'.args.file)
  \/ /\ calls[t].pc = "uploadSheet"
     /\ calls'[t].pc = "idle"
     /\ Blank(calls[t].file)

\* What C14 says of the steps of such an upload: the store that a reader
\* loads, and its file, are after the step what they were before it
BlankUploadLeavesStore ==
  \A t \in Tasks :
    BlankUploadStep(t) =>
      /\ loadVectorStore(vectorStore', vectorFile') = loadVectorStore(vectorStore, vectorFile)
      /\ vectorFile' = vectorFile

C15_ExtractionFailurePersistsNothing ==
  (lastReturn.op = "POST /upload" /\ ~lastReturn.args.file.readable) =>
    /\ lastReturn.outcome = "error"
    /\ lastReturn.value.status = 500
    /\ lastReturn.post = lastReturn.pre
    /\ RowsOf(lastReturn.post, lastReturn.args.docId) = {}
    /\ getStoredPDFPath(lastReturn.post.docs, lastReturn.args.docId) = <<>>

\* C15 witness: a corrupt PDF has been refused after another upload had
\* stored its vectors
C15_Witness ==
  /\ lastReturn.op = "POST /upload"
  /\ lastReturn.args.file = CorruptPdf
  /\ lastReturn.outcome = "error"
  /\ lastReturn.pre.memory # <<>>
  /\ lastReturn.pre.docs # {}

\* C16 (as claimed): an upload that fails after extraction leaves no record
\* of its docId in the vector store, in memory or on disk, and no stored PDF
\* of it; when a request has ended, the vectors and the sheet row of its
\* docId are both there or both absent.
C16_NoPartialUpload ==
  (lastReturn.op = "POST /upload" /\ lastReturn.args.file.readable) =>
    /\ lastReturn.outcome = "error" =>
         /\ VectorsOf(lastReturn.post.memory, lastReturn.args.docId) = <<>>
         /\ VectorsOf(lastReturn.post.disk, lastReturn.args.docId) = <<>>
         /\ getStoredPDFPath(lastReturn.post.docs, lastReturn.args.docId) = <<>>
    /\ VectorsOf(lastReturn.post.disk, lastReturn.args.docId) # <<>> =>
         RowsOf(lastReturn.post, lastReturn.args.docId) # {}
    /\ (RowsOf(lastReturn.post, lastReturn.args.docId) # {}
          /\ lastReturn.value.chunkCount > 0) =>
         VectorsOf(lastReturn.post.disk, lastReturn.args.docId) # <<>>

----------------------------------------------------------------------------
(* SpecCache: the page route beside a render cache one entry short of its *)
(* capacity                                                                *)

\* A stored PDF with one page more than the cache holds entries
ManyPages == CACHE_MAX_SIZE + 1

\* The cache after pages 1 to CACHE_MAX_SIZE - 1 of doc_a1 were rendered, in
\* this order, at time 0
SeedCache ==
  [k \in 1..(CACHE_MAX_SIZE - 1) |->
     [key |-> CacheKey("doc_a1", k), buffer |-> PageImage("doc_a1", k), timestamp |-> 0]]

\* The requests of a behaviour
MaxRenders == 3

\* The pages asked for: the first one cached, the two that fill the cache
\* and go beyond it, and one the PDF does not have
CachePages == {1, CACHE_MAX_SIZE, ManyPages, ManyPages + 1}

\* doc_a1 is a PDF of ManyPages blank pages, which has no chunk, and doc_b2 a
\* Markdown document of one section, which has no stored PDF; the server
\* has answered all but MaxRenders of its MaxRequests requests
InitCache ==
  /\ settings = OpenAISettings
  /\ env = NoEnv
  /\ vectorStore = <<>>
  /\ vectorFile =
       <<Ingested(EmptyStore,
                  processDocument(MarkdownFile(<<"#", " ", "A", "\n">> \o LongText),
                                  "doc_b2", "hr").chunks,
                  OpenAISettings)>>
  /\ calls = [t \in Tasks |-> Idle]
  /\ ncalls = MaxRequests - MaxRenders
  /\ lastReturn = NoReturn
  /\ docsDir = {[docId |-> "doc_a1", numPages |-> ManyPages]}
  /\ renderCache = SeedCache
  /\ clock = 0
  /\ deletedDocs = {}
  /\ uploadsDir = {}
  /\ documentsSheet =
       {[doc_id |-> "doc_a1", chunk_count |-> 0, num_pages |-> ManyPages,
         file_type |-> "pdf"],
        [doc_id |-> "doc_b2", chunk_count |-> 1, num_pages |-> 1,
         file_type |-> "markdown"]}

NextCache ==
  \/ \E t \in Tasks, p \in CachePages : RenderPageCall(t, "doc_a1", p)
  \/ \E t \in Tasks : RenderPageCall(t, "doc_b2", 1)
  \/ \E t \in Tasks, pdftoppm \in Rasterizers, fallbackOk \in BOOLEAN :
       RenderPageDone(t, pdftoppm, fallbackOk)
  \/ \E t \in Tasks : DeleteRouteCall(t, "doc_a1", TRUE, TRUE)
  \/ \E t \in Tasks : DeleteRouteDone(t, TRUE)
  \/ Tick

SpecCache == InitCache /\ [][NextCache]_vars

----------------------------------------------------------------------------
(* Claims on the render cache and the page route, under SpecCache *)

\* The page route has answered a request that passed its validation
PageAnswered ==
  /\ lastReturn.op = "GET /:docId/page/:pageNum"
  /\ lastReturn.args.pageNumber >= 1

\* The cache key of the request answered
AnsweredKey == CacheKey(lastReturn.args.docId, lastReturn.args.pageNumber)

CacheKeys(cache) == {cache[k].key : k \in DOMAIN cache}

\* The entries of the cache before a step whose keys are not among those
\* left after it were put in no later than any other entry, and the cache
\* was full
OldestEvicted(before, keysAfter) ==
  \A k \in DOMAIN before :
    before[k].key \notin keysAfter =>
      /\ Len(before) >= CACHE_MAX_SIZE
      /\ \A j \in DOMAIN before : before[k].timestamp <= before[j].timestamp

\* C17 (as claimed): the cache never holds more than CACHE_MAX_SIZE entries,
\* and an entry leaves it only by an insertion into a full cache and is then
\* the oldest-inserted one: no entry that stays was put in before it, so
\* that the pages rendered after it are still served.
C17_CacheBoundedOldestEvicted ==
  /\ Len(renderCache) <= CACHE_MAX_SIZE
  /\ (PageAnswered /\ lastReturn.post.cache # lastReturn.post.before) =>
       OldestEvicted(lastReturn.post.before, CacheKeys(lastReturn.post.cache))

\* What renderCache.get gave the request is an entry of its key younger
\* than CACHE_TTL
FoundFresh ==
  /\ lastReturn.pre.found # <<>>
  /\ lastReturn.pre.found[1].key = AnsweredKey
  /\ lastReturn.pre.now - lastReturn.pre.found[1].timestamp < CACHE_TTL

\* C18: a page request is answered from the cache, with the cached bytes
\* and without a renderer being run or the cache being written, exactly
\* when the cache holds an entry of its key younger than CACHE_TTL; with an
\* entry as old as CACHE_TTL or older, or none, the page is rendered, and
\* when that gives an image the entry of the key holds the new bytes and
\* the time of the new render.
C18_HitExactlyWhenFresh ==
  PageAnswered =>
    /\ lastReturn.post.hit <=> FoundFresh
    /\ lastReturn.post.hit =>
         /\ lastReturn.outcome = "ok"
         /\ lastReturn.value = lastReturn.pre.found[1].buffer
         /\ lastReturn.post.attempted = <<>>
         /\ lastReturn.post.cache = lastReturn.post.before
    /\ (~lastReturn.post.hit /\ lastReturn.outcome = "ok") =>
         /\ lastReturn.post.attempted # <<>>
         /\ CacheGet(lastReturn.post.cache, AnsweredKey)
              = <<[key |-> AnsweredKey, buffer |-> lastReturn.value,
                   timestamp |-> lastReturn.post.now]>>

\* C18 witness: a request found an entry exactly CACHE_TTL old, rendered
\* the page again and left the entry with the time of that render
C18_Witness ==
  /\ PageAnswered
  /\ lastReturn.outcome = "ok"
  /\ ~lastReturn.post.hit
  /\ lastReturn.pre.found # <<>>
  /\ lastReturn.pre.now - lastReturn.pre.found[1].timestamp = CACHE_TTL
  /\ CacheGet(renderCache, AnsweredKey)[1].timestamp = lastReturn.post.now
  /\ lastReturn.post.now > 0

\* C19: the cache changes only in a request that rendered an image, and
\* then holds that image under the request's key; a request that ends in an
\* error leaves the cache as it was; and no request fails at rendering, or
\* finds pdftoppm absent or failing, without pdf-to-img having been run.
C19_CacheWrittenAfterRender ==
  PageAnswered =>
    /\ lastReturn.outcome = "error" => lastReturn.post.cache = lastReturn.post.before
    /\ lastReturn.post.cache # lastReturn.post.before =>
         /\ lastReturn.outcome = "ok"
         /\ lastReturn.post.attempted # <<>>
         /\ lastReturn.value = PageImage(lastReturn.args.docId, lastReturn.args.pageNumber)
         /\ CacheGet(lastReturn.post.cache, AnsweredKey)
              = <<[key |-> AnsweredKey, buffer |-> lastReturn.value,
                   timestamp |-> lastReturn.post.now]>>
    /\ lastReturn.post.renderers # <<>> =>
         /\ lastReturn.outcome = "error" =>
              lastReturn.post.attempted[Len(lastReturn.post.attempted)] = "pdf-to-img"
         /\ lastReturn.post.renderers[1].pdftoppm # "ok" =>
              lastReturn.post.attempted[Len(lastReturn.post.attempted)] = "pdf-to-img"

\* C19 witness: pdftoppm and then pdf-to-img have failed on a page the PDF
\* has while the cache was full, and the cache is as it was
C19_Witness ==
  /\ PageAnswered
  /\ lastReturn.outcome = "error"
  /\ lastReturn.post.renderers = Renderers("fails", FALSE)
  /\ lastReturn.post.attempted = <<"pdftoppm", "pdf-to-img">>
  /\ lastReturn.args.pageNumber = ManyPages
  /\ Len(lastReturn.post.before) = CACHE_MAX_SIZE
  /\ renderCache = lastReturn.post.before

\* C20 (as claimed): a request for a docId that has no stored PDF when it
\* arrives is answered 404, one for a page beyond the last page of the
\* stored PDF is answered 400, and 500 is answered only when pdftoppm and
\* pdf-to-img have both failed on a page that the stored PDF has.
C20_RenderFailuresDistinguished ==
  PageAnswered =>
    /\ lastReturn.pre.stored = <<>> =>
         (lastReturn.outcome = "error" /\ lastReturn.value = 404)
    /\ (lastReturn.pre.stored # <<>>
          /\ lastReturn.args.pageNumber > lastReturn.pre.stored[1].numPages) =>
         (lastReturn.outcome = "error" /\ lastReturn.value = 400)
    /\ (lastReturn.outcome = "error" /\ lastReturn.value = 500) =>
         /\ lastReturn.pre.stored # <<>>
         /\ lastReturn.args.pageNumber <= lastReturn.pre.stored[1].numPages

----------------------------------------------------------------------------
(* Concurrent uploads, under SpecUpload *)

\* The ids that addChunks gives to the n text chunks of a document
TextChunkIds(docId, n) == {docId \o "_chunk_" \o ToString(i) : i \in 0..(n - 1)}

\* The store holds each of the chunks that a row of the sheet counts, once
HoldsChunksOf(store, row) ==
  /\ {c.id : c \in Range(VectorsOf(store, row.doc_id))}
       = TextChunkIds(row.doc_id, row.chunk_count)
  /\ Len(VectorsOf(store, row.doc_id)) = row.chunk_count

\* C21: the uploads that have answered with success each have their row in
\* the documents sheet and every one of their chunks in the vector store, in
\* memory and in the file, whatever other upload ran beside them; and an
\* upload that answers with success has added its row.
C21_ConcurrentUploadsKeepBoth ==
  /\ \A row \in documentsSheet :
       /\ HoldsChunksOf(<<Loaded>>, row)
       /\ HoldsChunksOf(vectorFile, row)
  /\ (lastReturn.op = "POST /upload" /\ lastReturn.outcome = "ok") =>
       \E row \in documentsSheet :
         /\ row.doc_id = lastReturn.args.docId
         /\ row.chunk_count = lastReturn.value.chunkCount

\* C21 witness: an upload has answered with success that began when neither
\* the store nor the sheet knew of any document, and the sheet now has the
\* rows of two documents with chunks: the two uploads ran side by side.
C21_Witness ==
  /\ lastReturn.op = "POST /upload"
  /\ lastReturn.outcome = "ok"
  /\ lastReturn.pre.sheet = {}
  /\ StoreContent(lastReturn.pre).chunks = <<>>
  /\ Cardinality({row \in documentsSheet : row.chunk_count > 0}) = 2
  /\ \A t \in Tasks : calls[t].pc = "idle"

----------------------------------------------------------------------------
(* The fields of a chunk through ingestion, under SpecUpload *)

\* The fields that the claim names beside fileType, header and sectionIndex,
\* as addChunks finds them on a chunk
PositionalFields(chunk) ==
  [type |-> "text", docId |-> chunk.docId, chunkIndex |-> chunk.index,
   source |-> chunk.metadata.source, numPages |-> chunk.metadata.numPages,
   application |-> chunk.application, pageNumber |-> chunk.pageNumber,
   startPage |-> chunk.startPage, endPage |-> chunk.endPage]

\* The metadata of a stored record carries the fields of the chunk
CarriesFields(metadata, chunk) ==
  /\ \A f \in DOMAIN PositionalFields(chunk) :
       f \in DOMAIN metadata /\ metadata[f] = PositionalFields(chunk)[f]
  /\ "fileType" \in DOMAIN metadata /\ metadata.fileType = chunk.metadata.fileType
  /\ chunk.metadata.header # <<>> =>
       "header" \in DOMAIN metadata /\ metadata.header = chunk.metadata.header[1]
  /\ chunk.metadata.sectionIndex # <<>> =>
       /\ "sectionIndex" \in DOMAIN metadata
       /\ metadata.sectionIndex = chunk.metadata.sectionIndex[1]

\* The results of a search of the whole store for the records of a docId
SearchedFor(stored, docId) ==
  SearchResults(stored, [dim |-> 1536, head |-> EmbedHead("alpha")],
                [limit |-> <<Len(stored) + 1>>, application |-> "", docId |-> docId])

\* C22 (as claimed): after an upload has answered with success, the record
\* that the store holds for each of its chunks, and each result that a search
\* returns for its docId, carries in its metadata the chunk's fileType and,
\* for a section of a Markdown file, its header and sectionIndex, beside
\* type, docId, chunkIndex, source, numPages, application, pageNumber,
\* startPage and endPage.
C22_ChunkFieldsSurviveIngestion ==
  (lastReturn.op = "POST /upload" /\ lastReturn.outcome = "ok") =>
    LET chunks == processDocument(lastReturn.args.file, lastReturn.args.docId, "hr").chunks
        stored == StoreContent(lastReturn.post).chunks
    IN  \A k \in DOMAIN chunks :
          /\ \E i \in DOMAIN stored :
               /\ stored[i].id = ChunkId(chunks[k], "text")
               /\ CarriesFields(stored[i].metadata, chunks[k])
          /\ \A r \in Range(SearchedFor(stored, lastReturn.args.docId)) :
               r.id = ChunkId(chunks[k], "text") => CarriesFields(r.metadata, chunks[k])

----------------------------------------------------------------------------
(* More claims on the vector store, under Spec *)

\* The embeddings of a list of records all have one dimensionality
OneDimensionality(stored) ==
  \A i, j \in DOMAIN stored : stored[i].embedding.dim = stored[j].embedding.dim

\* C23 (as claimed): in every state the embeddings of the stored chunks, in
\* memory and in the file, have one and the same dimensionality, also when
\* the embedding settings change between two calls of addChunks.
C23_OneDimensionality ==
  /\ OneDimensionality(StoredChunks)
  /\ OneDimensionality(FileChunks)

\* No call that changes the store is between two of its steps
NoMutationInProgress == \A t \in Tasks : calls[t].pc # "addChunks"

\* C26 (as claimed): whenever no mutating call is in progress and the store
\* is loaded, the file holds the store that is in memory, a missing file
\* counting as an empty store; this includes the state after a call whose
\* write has failed.
C26_FileEqualsMemory ==
  (NoMutationInProgress /\ vectorStore # <<>>) =>
    loadVectorStore(<<>>, vectorFile) = vectorStore

\* The step in which task t's addChunks returns ok after adding chunks
AddChunksReturnsOk(t) ==
  /\ calls[t].pc = "addChunks"
  /\ calls'[t].pc = "idle"
  /\ lastReturn'.op = "addChunks"
  /\ lastReturn'.task = t
  /\ lastReturn'.outcome = "ok"

\* The configuration that generateEmbeddings reads when it is called
Producer == getEmbeddingConfig(settings, env)

\* C27 (as claimed): when addChunks returns ok after adding chunks, the
\* provider and model that the store records are those that generateEmbeddings
\* used for the embeddings of the call, and the records of the call have the
\* dimensionality of that model.
C27_RecordedProviderProducedEmbeddings ==
  [][\A t \in Tasks :
       AddChunksReturnsOk(t) =>
         /\ vectorStore'[1].provider = Producer.provider
         /\ vectorStore'[1].model = Producer.model
         /\ \A c \in Range(vectorStore'[1].chunks) :
              c.id \in {ChunkId(calls[t].chunks[k], calls[t].chunkType) :
                          k \in DOMAIN calls[t].chunks}
                => c.embedding.dim
                     = Dimensions(vectorStore'[1].provider, vectorStore'[1].model)]_vars

\* The step of a deleteDocument call
DeleteDocumentStep == lastReturn'.op = "deleteDocument" /\ ncalls' = ncalls + 1

\* The records of other documents, in their order
OtherRecords(stored, docId) == SelectSeq(stored, LAMBDA c : c.metadata.docId # docId)

\* What a deleteDocument step leaves as it was
DeleteDocumentFrame ==
  LET docId == lastReturn'.args.docId
      before == Loaded
      after == vectorStore'[1]
  IN  /\ OtherRecords(after.chunks, docId) = OtherRecords(before.chunks, docId)
      /\ after.provider = before.provider
      /\ after.model = before.model
      /\ RecordsOf(before.chunks, docId) = {} => after = before
      /\ lastReturn'.outcome = "ok" => vectorFile' = <<after>>
      /\ lastReturn'.outcome # "ok" => vectorFile' = vectorFile

\* C30: deleteDocument(docId) leaves every record of another docId in the
\* store with its content, embedding and metadata and in the same order,
\* leaves the recorded provider and model, and for a docId without records
\* leaves the whole content of the store; the file it writes is that store.
C30_DeleteDocumentFrame == [][DeleteDocumentStep => DeleteDocumentFrame]_vars

\* C30 witness: deleteDocument has returned ok for a document that had
\* records, beside the records of another document.
C30_Witness ==
  /\ lastReturn.op = "deleteDocument"
  /\ lastReturn.outcome = "ok"
  /\ RecordsOf(lastReturn.pre, lastReturn.args.docId) # {}
  /\ lastReturn.post # <<>>
  /\ StoredChunks = lastReturn.post

----------------------------------------------------------------------------
(* Token counts, under SpecChunk *)

\* ceil(n / 4)
CeilQuarter(n) == IF n % 4 = 0 THEN n \div 4 ELSE n \div 4 + 1

\* C28 (as claimed): every chunk that chunkText, chunkByPages or
\* chunkByHeaders returns has tokenCount = ceil(n / 4), n being the number of
\* characters of the chunk's content.
C28_TokenCountOfContent ==
  lastReturn.op \in {"chunkText", "chunkByPages", "chunkByHeaders"} =>
    \A chunk \in Range(lastReturn.value) :
      chunk.tokenCount = CeilQuarter(Len(chunk.content))

----------------------------------------------------------------------------
(* SpecDelete: the delete route beside uploads, with failures at each of   *)
(* its steps and crashes of the server                                     *)

\* The requests of a behaviour
MaxDeletes == 3

\* The server process dies and is started again: what is in memory is lost
\* (the loaded store, the render cache, the requests in progress), what is
\* on disk and in the documents sheet stays
Crash ==
  /\ vectorStore # <<>> \/ \E t \in Tasks : calls[t].pc # "idle"
  /\ vectorStore' = <<>>
  /\ renderCache' = <<>>
  /\ calls' = [t \in Tasks |-> Idle]
  /\ UNCHANGED <<settings, env, vectorFile, ncalls, lastReturn, docsDir, clock,
                 deletedDocs, documentsSheet, uploadsDir>>

\* A stored PDF of one page with its vectors and its row, and all but
\* MaxDeletes of the MaxRequests requests answered
InitDelete ==
  /\ settings = OpenAISettings
  /\ env = NoEnv
  /\ vectorStore = <<>>
  /\ vectorFile = <<Ingested(EmptyStore, TextChunks("doc_a1", 1, 1, "hr"), OpenAISettings)>>
  /\ calls = [t \in Tasks |-> Idle]
  /\ ncalls = MaxRequests - MaxDeletes
  /\ lastReturn = NoReturn
  /\ docsDir = {[docId |-> "doc_a1", numPages |-> 1]}
  /\ renderCache = <<>>
  /\ clock = 0
  /\ deletedDocs = {}
  /\ uploadsDir = {}
  /\ documentsSheet = {[doc_id |-> "doc_a1", chunk_count |-> 1, num_pages |-> 1,
                        file_type |-> "pdf"]}

NextDelete ==
  \/ \E t \in Tasks, d \in DocIds, diskOk \in BOOLEAN, unlinkOk \in BOOLEAN :
       DeleteRouteCall(t, d, diskOk, unlinkOk)
  \/ \E t \in Tasks, sheetOk \in BOOLEAN : DeleteRouteDone(t, sheetOk)
  \/ \E t \in Tasks, d \in DocIds : UploadCall(t, d, PdfFile(<<LongText>>), "hr", TRUE)
  \/ \E t \in Tasks, diskOk \in BOOLEAN : UploadEmbedded(t, TRUE, diskOk, TRUE)
  \/ \E t \in Tasks, sheetOk \in BOOLEAN : UploadSaved(t, sheetOk)
  \/ Crash

SpecDelete == InitDelete /\ [][NextDelete]_vars

\* Nothing of a docId is left in the vector store, in memory or in the
\* file, nor among the stored PDFs
NothingLeftOf(docId) ==
  /\ VectorsOf(vectorStore, docId) = <<>>
  /\ VectorsOf(vectorFile, docId) = <<>>
  /\ getStoredPDFPath(docsDir, docId) = <<>>

\* C24: a delete request asks the documents sheet to remove the row of its
\* docId only after the vector records and the stored PDF of the docId are
\* gone, and a docId whose row the delete path has removed has no record in
\* the vector store, in memory or in the file, and no stored PDF; this holds
\* in every state, whatever step of a request fails and wherever the server
\* crashes.
C24_MetadataDeletedLast ==
  /\ \A t \in Tasks : calls[t].pc = "deleteSheet" => NothingLeftOf(calls[t].docId)
  /\ \A docId \in deletedDocs : NothingLeftOf(docId) /\ docId \notin SheetIds

\* C24 witness: a delete request has removed the row of a document whose
\* vectors and PDF were stored, beside a document uploaded since, which has
\* its vectors, its PDF and its row
C24_Witness ==
  /\ "doc_a1" \in deletedDocs
  /\ lastReturn.op = "DELETE /:docId"
  /\ lastReturn.outcome = "ok"
  /\ VectorsOf(vectorFile, "doc_b2") # <<>>
  /\ getStoredPDFPath(docsDir, "doc_b2") # <<>>
  /\ "doc_b2" \in SheetIds

----------------------------------------------------------------------------
(* SpecReaders: searches beside the calls that change the store *)

\* The ingestions that run beside the searches: two versions of a document
\* and a second document, each of MaxChunks chunks
ReaderIngestions ==
  {TextChunks("doc_a1", MaxChunks, 1, "hr"), TextChunks("doc_a1", MaxChunks, 2, "hr"),
   TextChunks("doc_b2", MaxChunks, 1, "crm")}

\* A search without a filter whose limit no store of the model exceeds
WholeStoreOptions ==
  [limit |-> <<Cardinality(DocIds) * MaxChunks>>, application |-> "", docId |-> ""]

\* The file holds the first version of doc_a1 and the store is not loaded
InitReaders ==
  /\ settings = OpenAISettings
  /\ env = NoEnv
  /\ vectorStore = <<>>
  /\ vectorFile = <<Ingested(EmptyStore, TextChunks("doc_a1", MaxChunks, 1, "hr"),
                             OpenAISettings)>>
  /\ calls = [t \in Tasks |-> Idle]
  /\ ncalls = 0
  /\ lastReturn = NoReturn
  /\ docsDir = {}
  /\ renderCache = <<>>
  /\ clock = 0
  /\ deletedDocs = {}
  /\ uploadsDir = {}
  /\ documentsSheet = {}

NextReaders ==
  \/ \E t \in Tasks : SearchCall(t, "alpha", WholeStoreOptions)
  \/ \E t \in Tasks, up \in BOOLEAN : SearchEmbedded(t, up)
  \/ \E t \in Tasks, chunks \in ReaderIngestions : AddChunksCall(t, chunks, "text")
  \/ \E t \in Tasks, up \in BOOLEAN, diskOk \in BOOLEAN : AddChunksEmbedded(t, up, diskOk)
  \/ \E t \in Tasks, d \in DocIds, diskOk \in BOOLEAN : DeleteDocumentCall(t, d, diskOk)

SpecReaders == InitReaders /\ [][NextReaders]_vars

\* The id and content of each record of a docId among search results
ResultsOf(results, docId) ==
  {[id |-> r.id, content |-> r.content] :
     r \in {x \in Range(results) : x.metadata.docId = docId}}

\* The id and content that addChunks gives to each chunk of an ingestion
RecordsAddedBy(chunks) ==
  {[id |-> ChunkId(chunks[k], "text"), content |-> chunks[k].content] : k \in DOMAIN chunks}

\* The results show of each document nothing, or all the chunks of one
\* addChunks call and nothing else
WholeMutations(results) ==
  \A docId \in DocIds :
    \/ ResultsOf(results, docId) = {}
    \/ \E chunks \in ReaderIngestions :
         /\ chunks[1].docId = docId
         /\ ResultsOf(results, docId) = RecordsAddedBy(chunks)

\* C25: what a search returns is computed from the store as it is between
\* two mutations: of each document the results show either no record or all
\* the chunks of one addChunks call, never some of the chunks of a call in
\* progress nor what a deleteDocument in progress has yet to remove; and the
\* results are those of the store in memory when the search returns.
C25_SearchSeesWholeMutations ==
  (lastReturn.op = "search" /\ lastReturn.outcome = "ok") =>
    /\ WholeMutations(lastReturn.value)
    /\ lastReturn.value
         = SearchResults(lastReturn.post, [dim |-> 1536, head |-> EmbedHead("alpha")],
                         lastReturn.args.options)
    /\ Len(lastReturn.value) = Len(lastReturn.post)

\* C25 witness: a search has returned, of the MaxCalls calls of a behaviour
\* in which two addChunks calls ran, all chunks of the second version of
\* doc_a1 and all chunks of doc_b2.
C25_Witness ==
  /\ lastReturn.op = "search"
  /\ lastReturn.outcome = "ok"
  /\ ncalls = MaxCalls
  /\ ResultsOf(lastReturn.value, "doc_a1")
       = RecordsAddedBy(TextChunks("doc_a1", MaxChunks, 2, "hr"))
  /\ ResultsOf(lastReturn.value, "doc_b2")
       = RecordsAddedBy(TextChunks("doc_b2", MaxChunks, 1, "crm"))

----------------------------------------------------------------------------
(* The temp files of the upload route, under SpecTemp *)

\* The files uploaded under SpecTemp: a PDF with text, a PDF without pages,
\* a Markdown file with a section, and a PDF that pdf-parse cannot read
TempFiles ==
  {PdfFile(<<LongText>>), PdfFile(<<>>), MarkdownFile(<<"#", " ", "A", "\n", "b">>),
   CorruptPdf}

\* The application field of the form: a name, or none
TempApplications == {"hr", ""}

InitTemp == UploadSeeded(<<>>)

NextTemp ==
  \/ \E t \in Tasks, d \in DocIds, file \in TempFiles, application \in TempApplications,
        copyOk \in BOOLEAN :
       UploadCall(t, d, file, application, copyOk)
  \/ \E t \in Tasks, up \in BOOLEAN, diskOk \in BOOLEAN, copyOk \in BOOLEAN :
       UploadEmbedded(t, up, diskOk, copyOk)
  \/ \E t \in Tasks, sheetOk \in BOOLEAN : UploadSaved(t, sheetOk)

SpecTemp == InitTemp /\ [][NextTemp]_vars

\* The temp files of the uploads that have not responded yet
PendingTempFiles ==
  {calls[t].path : t \in {u \in Tasks : calls[u].pc \in {"upload", "uploadSheet"}}}

\* C29: every upload request that received a file leaves no temp file in
\* uploads/ once it has responded, on every exit path: the only files in
\* uploads/ are those of the uploads still in progress
C29_NoTempFileAfterResponse == uploadsDir \subseteq PendingTempFiles

====
